---- MODULE Spec2Model ----
(***************************************************************************)
(* mp_event_loop: an EventLoop owns a task channel (event_queue) and a     *)
(* result channel (consumer_queue).  A worker process runs run_event_loop  *)
(* on the task channel, a consumer thread runs run_consumer_loop on the    *)
(* result channel and feeds EventLoop.process_output.  The origin thread   *)
(* calls start / stop / close / wait / add_event.                          *)
(***************************************************************************)
EXTENDS Integers, Sequences, FiniteSets, TLC

\* ------------------------------------------------------------------ bounds
\* Number of add_event calls of one run.
MaxTasks == 2
\* Number of start() calls of one run (each spawns a new worker process).
MaxStarts == 2
\* Number of worker processes of a Pool (its processes argument).
PoolSize == 2
\* Streaming loop: the number of add_event calls of a run and the largest
\* number of values a finite stream yields.
MaxStreams == 3
MaxYield == 2
\* Proxy: the number of calls made on a Proxy after its construction.
MaxProxyCalls == 2

\* ------------------------------------------------------------------ values
\* A Python value as it is passed around: t is its type, s a name (the text of
\* a str, the name of a function or of an object), n a number (an int, or the
\* count attribute of an object), i the instance (0: the object of the origin
\* process; k > 0: the copy made by unpickling task k), m the method name of a
\* bound method.
NoneV == [t |-> "none", s |-> "", n |-> 0, i |-> 0, m |-> ""]
IntV(k) == [t |-> "int", s |-> "", n |-> k, i |-> 0, m |-> ""]
StrV(str) == [t |-> "str", s |-> str, n |-> 0, i |-> 0, m |-> ""]
FnV(name) == [t |-> "fn", s |-> name, n |-> 0, i |-> 0, m |-> ""]
ObjV(name, count, inst) == [t |-> "obj", s |-> name, n |-> count, i |-> inst, m |-> ""]
DictV(name) == [t |-> "dict", s |-> name, n |-> 0, i |-> 0, m |-> ""]
ListV(name) == [t |-> "list", s |-> name, n |-> 0, i |-> 0, m |-> ""]
\* obj.name as a bound method, and the receiver (__self__) of a bound method.
MethodV(obj, name) == [obj EXCEPT !.t = "method", !.m = name]
SelfOf(method) == [method EXCEPT !.t = "obj", !.m = ""]

callable(v) == v.t \in {"fn", "method"}
\* Python's default == on objects: identity.
SameObject(x, y) == x.t = y.t /\ x.s = y.s /\ x.i = y.i /\ x.m = y.m

\* hash(v) raises TypeError for a list or a dict.
Hashable(v) == v.t \notin {"list", "dict"}

\* An empty dict; dicts are functions from values (the keys) to values.
EmptyDict == [k \in {} |-> NoneV]
\* dict.get(key, default)
DictGet(d, key, default) == IF key \in DOMAIN d THEN d[key] ELSE default
\* d[key] = val
DictSet(d, key, val) == [k \in DOMAIN d \cup {key} |-> IF k = key THEN val ELSE d[k]]

\* pickle.dumps in the origin process: an object goes by value, with the state
\* it has in the origin heap at that moment.
Pickle(v, heap) ==
    IF v.t \in {"obj", "method"} /\ v.i = 0 /\ v.s \in DOMAIN heap
    THEN [v EXCEPT !.n = heap[v.s]] ELSE v
\* An unpickling that hands back the object that was pickled.
Unpickle_shared(v, inst) == v

\* pickle.loads: an object by value becomes a new instance.
Unpickle(v, inst) ==
    IF v.t \in {"obj", "method"} THEN [v EXCEPT !.i = inst] ELSE v

\* ------------------------------------------------------------------ JoinableQueue
EmptyQueue == [items |-> <<>>, unfinished |-> 0]
\* A put at the head of the queue.
put_front(que, item) ==
    [items |-> <<item>> \o que.items, unfinished |-> que.unfinished + 1]

\* JoinableQueue.put
put(que, item) == [items |-> Append(que.items, item), unfinished |-> que.unfinished + 1]
qsize(que) == Len(que.items)
\* A mark_task_done that never calls task_done().
mark_task_done_skipped(que) == que

\* mark_task_done: task_done() raises ValueError when called too often; swallowed.
mark_task_done(que) ==
    IF que.unfinished = 0 THEN que ELSE [que EXCEPT !.unfinished = @ - 1]

\* ------------------------------------------------------------------ LoopQueueSize
\* is_parent_process_alive(): psutil is optional, without it the answer is True;
\* the origin process is alive in every state of this model.
is_parent_process_alive == TRUE

\* A __next__ that never raises StopIteration.
LoopQueueSize__next__forever(countdown, alive, qs) == [countdown |-> -1, go |-> TRUE]

\* LoopQueueSize.__next__: the new countdown and whether the loop body runs
\* (go) or StopIteration is raised.
LoopQueueSize__next__(countdown, alive, qs) ==
    IF countdown > 0 THEN [countdown |-> countdown - 1, go |-> TRUE]
    ELSE IF countdown = 0 THEN [countdown |-> -1, go |-> FALSE]
    ELSE IF alive /\ is_parent_process_alive THEN [countdown |-> countdown, go |-> TRUE]
    ELSE IF qs = 0 THEN [countdown |-> -1, go |-> FALSE]
    ELSE [countdown |-> qs, go |-> TRUE]

\* ------------------------------------------------------------------ Event
\* The callables and objects the origin program submits: the free functions
\* plus_one (returns its argument plus one) and raise_error (raises), the
\* builtin print (takes any arguments, returns None), and a, an
\* object with a count attribute and a method increment (count += 1, returns
\* count).
plus_one == FnV("plus_one")
print == FnV("print")
raise_error == FnV("raise_error")
a == ObjV("a", 0, 0)
\* getattr(obj, name, None)
getattr(obj, name) ==
    IF obj.t = "obj" /\ obj.s = "a" /\ name = "increment" THEN MethodV(obj, name) ELSE NoneV

\* Event.__init__
Event__init__(id, target, args, has_output) ==
    [id |-> id, cls |-> "Event", target |-> target, args |-> args,
     results |-> NoneV, error |-> "", has_output |-> has_output,
     cache_id |-> NoneV, register |-> <<>>, object_id |-> NoneV,
     method_name |-> "", object |-> NoneV]

\* Event.run: self.target(*self.args); the outcome is the result, the exception
\* raised ("" for none) and the target after the call (a bound method's
\* receiver may have changed).
run(target, args) ==
    IF target.t = "method" /\ target.m = "increment" /\ Len(args) = 0
    THEN [results |-> IntV(target.n + 1), error |-> "", target |-> [target EXCEPT !.n = @ + 1]]
    ELSE IF target = plus_one /\ Len(args) = 1 /\ args[1].t = "int"
    THEN [results |-> IntV(args[1].n + 1), error |-> "", target |-> target]
    ELSE IF target = raise_error
    THEN [results |-> NoneV, error |-> "RuntimeError", target |-> target]
    ELSE IF target = print
    THEN [results |-> NoneV, error |-> "", target |-> target]
    ELSE [results |-> NoneV, error |-> "TypeError", target |-> target]

\* The exceptions "except Exception" catches; what run raises otherwise
\* (SystemExit, KeyboardInterrupt) goes through exec_ to the caller.
ExceptionClasses == {"RuntimeError", "TypeError", "ValueError"}

\* An exec_ without the try/except: every exception goes to the caller.
Propagates_all(ev) ==
    callable(ev.target) /\ run(ev.target, ev.args).error # ""

\* Event.exec_ / CacheEvent.exec_, the try/except around self.run(): whether
\* the exception run raises leaves exec_.
Propagates(ev) ==
    callable(ev.target) /\ run(ev.target, ev.args).error \notin ExceptionClasses \cup {""}

\* Event.exec_
Event_exec_(ev) ==
    IF callable(ev.target)
    THEN LET r == run(ev.target, ev.args)
         IN [ev EXCEPT !.results = r.results, !.error = r.error, !.target = r.target]
    ELSE IF ev.target # NoneV
    THEN [ev EXCEPT !.results = NoneV, !.error = "ValueError"]
    ELSE [ev EXCEPT !.results = NoneV, !.error = ""]

\* Event.__getstate__ as pickled in the process whose heap is given: target and
\* arguments go by value.
Event__getstate__(ev, heap) ==
    [ev EXCEPT !.target = Pickle(@, heap),
               !.args = [k \in DOMAIN @ |-> Pickle(@[k], heap)]]

\* Event.__setstate__ on unpickling: what came by value is a new instance.
Event__setstate__(state, inst) ==
    [state EXCEPT !.target = Unpickle(@, inst),
                  !.args = [k \in DOMAIN @ |-> Unpickle(@[k], inst)]]

\* ------------------------------------------------------------------ CacheEvent
DO_NOT_REGISTER_TYPE == {"str", "bytes", "int", "float", "complex"}

\* CacheEvent.get_object_key: str(id(obj)), or the value itself for a primitive.
get_object_key(obj) ==
    IF obj.t \in DO_NOT_REGISTER_TYPE \/ obj = NoneV THEN obj
    ELSE StrV("id_" \o obj.s)

\* CacheEvent.get_or_register_object on the class-level dict C: the dict after
\* the call and the value returned.
get_or_register_object(obj_id, obj, C) ==
    LET C2 == IF obj.t \notin DO_NOT_REGISTER_TYPE /\ obj # NoneV /\ obj_id \notin DOMAIN C
              THEN DictSet(C, obj_id, obj) ELSE C
    IN [C |-> C2, value |-> DictGet(C2, obj_id, obj)]

\* An is_object_registered that never finds the object.
is_object_registered_never(obj, name, cache) == FALSE

\* CacheEvent.is_object_registered
is_object_registered(obj, name, cache) ==
    obj # NoneV /\ SameObject(DictGet(cache, name, NoneV), obj)

\* CacheEvent.register_object: the cache after cache[name] = obj.
register_object(obj, name, cache) == DictSet(cache, name, obj)

\* CacheEvent._cache_object_with_register: the cache afterwards, the
\* registration list and the object id.
cache_object_with_register(obj, re_register, cache) ==
    LET object_id == get_object_key(obj)
    IN IF obj.t \notin DO_NOT_REGISTER_TYPE /\ obj # NoneV
          /\ (re_register \/ ~is_object_registered(obj, object_id, cache))
       THEN [cache |-> register_object(obj, object_id, cache),
             register |-> <<[name |-> object_id, obj |-> obj]>>,
             object_id |-> object_id]
       ELSE [cache |-> cache, register |-> <<>>, object_id |-> object_id]

\* CacheEvent._key_cached_object
key_cached_object(obj, cache) ==
    LET object_id == get_object_key(obj)
    IN IF obj.t \notin DO_NOT_REGISTER_TYPE /\ obj # NoneV
          /\ is_object_registered(obj, object_id, cache)
       THEN object_id ELSE obj

\* CacheEvent.__init__ in the origin process, against the loop's cache and the
\* class-level CacheEvent.CACHE: the event and both dicts afterwards.
CacheEvent__init__(id, cls, target, args, has_output, re_register, cache, C) ==
    LET obj == IF target.t = "method" THEN SelfOf(target) ELSE target
        cmd == IF target.t = "method" THEN target.m ELSE ""
        cache_id == get_object_key(DictV("cache"))
        g == get_or_register_object(cache_id, DictV("cache"), C)
        r == cache_object_with_register(obj, re_register, cache)
    IN [event |-> [id |-> id, cls |-> cls, target |-> target,
                   args |-> [k \in DOMAIN args |-> key_cached_object(args[k], r.cache)],
                   results |-> NoneV, error |-> "", has_output |-> has_output,
                   cache_id |-> cache_id, register |-> r.register,
                   object_id |-> r.object_id, method_name |-> cmd, object |-> obj],
        cache |-> r.cache, CACHE |-> g.C]

\* CacheEvent.__getstate__: the target is not sent; the registration list, the
\* object id and the method name are.
CacheEvent__getstate__(ev, heap) ==
    [ev EXCEPT !.target = NoneV, !.object = NoneV,
               !.args = [k \in DOMAIN @ |-> Pickle(@[k], heap)],
               !.register = [k \in DOMAIN @ |->
                                [name |-> @[k].name, obj |-> Pickle(@[k].obj, heap)]]]

\* The registration loop of CacheEvent.__setstate__.
RECURSIVE RegisterAll(_, _, _)
RegisterAll(register, cache, inst) ==
    IF register = <<>> THEN cache
    ELSE RegisterAll(Tail(register),
                     register_object(Unpickle(Head(register).obj, inst),
                                     Head(register).name, cache),
                     inst)

\* The dicts of one process: CACHE is CacheEvent.CACHE, cache the dict CACHE
\* holds under the loop's cache id when that is not CACHE itself.
\* SelfCache is the dict self.cache names.
SelfCache(reg, cache_id) ==
    IF DictGet(reg.CACHE, cache_id, NoneV) = DictV("cache") THEN reg.cache ELSE reg.CACHE
WithSelfCache(reg, cache_id, d) ==
    IF DictGet(reg.CACHE, cache_id, NoneV) = DictV("cache")
    THEN [reg EXCEPT !.cache = d] ELSE [reg EXCEPT !.CACHE = d]

\* CacheEvent.__setstate__ (and CacheObjectEvent.__setstate__) in a process with
\* dicts reg: the event and the dicts afterwards; error is the exception that
\* leaves it ("" for none): self.cache.get(arg, arg) hashes arg.
CacheEvent__setstate__(state, reg, inst) ==
    LET g == get_or_register_object(state.cache_id, DictV("CACHE"), reg.CACHE)
        reg1 == [reg EXCEPT !.CACHE = g.C]
        cache == RegisterAll(state.register, SelfCache(reg1, state.cache_id), inst)
        object == DictGet(cache, state.object_id, NoneV)
        target == IF state.method_name # "" THEN getattr(object, state.method_name)
                  ELSE object
    IN [event |-> [state EXCEPT
                     !.register = <<>>,
                     !.object = object,
                     !.target = IF state.cls = "CacheObjectEvent" THEN NoneV ELSE target,
                     !.args = [k \in DOMAIN @ |-> DictGet(cache, @[k], Unpickle(@[k], inst))]],
        reg |-> WithSelfCache(reg1, state.cache_id, cache),
        error |-> IF \A k \in DOMAIN state.args : Hashable(state.args[k])
                  THEN "" ELSE "TypeError"]

\* CacheEvent.exec_
CacheEvent_exec_(ev) ==
    IF callable(ev.target)
    THEN LET r == run(ev.target, ev.args)
         IN [ev EXCEPT !.results = r.results, !.error = r.error, !.target = r.target,
                       !.object = IF r.target.t = "method" THEN SelfOf(r.target) ELSE @]
    ELSE IF ev.target = NoneV /\ ev.object # NoneV
    THEN [ev EXCEPT !.results = ev.object, !.error = ""]
    ELSE [ev EXCEPT !.results = NoneV, !.error = "ValueError"]

\* An object of the origin process (instance 0) lives in the origin heap.
MutatedHeap(heap, target) ==
    IF target.t = "method" /\ target.i = 0 THEN [heap EXCEPT ![target.s] = target.n]
    ELSE heap

\* Dicts that hold a copy of the object, not the object the method ran on.
Unmutated(d, target) == d

\* The object a method ran on is the object the dicts hold: its new state is
\* seen through every entry that is that instance.
Mutated(d, target) ==
    [k \in DOMAIN d |->
        IF target.t = "method" /\ d[k].t = "obj" /\ d[k].s = target.s /\ d[k].i = target.i
        THEN [d[k] EXCEPT !.n = target.n] ELSE d[k]]

\* ------------------------------------------------------------------ state
\* No process or thread object (None).
NoProc == 0
\* The worker processes and consumer threads one run can spawn; start() number k
\* spawns worker k and consumer k.
Procs == 1..(IF PoolSize > MaxStarts THEN PoolSize ELSE MaxStarts)
\* No event in hand.
NoEvent == Event__init__(0, NoneV, <<>>, "None")
\* The dicts of a process that has unpickled nothing yet.
NoDicts == [CACHE |-> EmptyDict, cache |-> EmptyDict]

\* A worker that has not seen the loss of liveness.
NotDraining == [snap |-> -1, got |-> 0]
\* The origin threads that submit cache events beside the main thread, and a
\* thread that is not inside add_cache_event.
Threads == {"t1", "t2"}
NotBuilding == [pc |-> "idle", registered |-> FALSE, overlap |-> FALSE, ev |-> NoEvent]
\* No Proxy has been constructed.
\* (z is the entry '_z' of the dict, get_z the entry of the getter.)
NoProxy == [made |-> FALSE, PROXY_CLASS |-> "", x |-> NoneV, y |-> NoneV,
            z |-> NoneV, get_z |-> NoneV]
\* The for loop over iter_events is not running.
NoIterLoop == [i |-> 0, n |-> 0, offset |-> 0, pending |-> <<>>, advanced |-> <<>>,
               error |-> ""]

VARIABLES
    \* the EventLoop object and the origin process
    has_results, needs_to_close, alive_event, event_queue, consumer_queue,
    event_process, consumer_process, cache, output_handlers,
    loops,          \* Pool.loops: the worker processes of a Pool, in order
    CACHE,          \* CacheEvent.CACHE of the origin process
    objects,        \* the origin heap: the count of each object
    \* the origin thread: the steps left of the call in progress, the method
    \* called last, stop()'s kwargs['consumer_process'], an uncaught exception
    ostack, ocall, kwargs, raised,
    \* worker process p: place in run_event_loop, the LoopQueueSize countdown,
    \* the event in hand, its dicts
    wpc, wcountdown, wevent, wreg,
    \* worker process p, while it drains after the loss of liveness: the qsize
    \* it saw then (snap, -1 when it is not draining) and the events it has
    \* taken since (got)
    wdrain,
    iter_events,    \* run_iter_event_loop: the list of pending stream events
    iter_loop,      \* its for loop over iter_events: i, range bound n, offset
    stream_log,     \* history: every next() on a finite stream and what it led to
    proxy,          \* Proxy.__proxy__: the dict of mirrored values in the origin process
    mp_object,      \* the object created for the Proxy in the worker process
    mp_created,     \* history: the create_mp_object calls made in the worker process
    \* origin thread t inside add_cache_event: its place, what
    \* is_object_registered returned to it, the event it has constructed
    building,
    \* consumer thread c: place in run_consumer_loop, countdown, event in hand
    cpc, ccountdown, cevent,
    \* history: start() calls completed, the events as built by add_event (each
    \* with the value of starts and whether wait() was the call before),
    \* the executions in the workers, the process_output calls, the close()
    \* bodies run since the last start(), and the value of starts when stop() or
    \* close() was first called twice in a row or on a loop never started (-1
    \* before that)
    starts, submitted, executed, handled, closed, idem

vars == <<has_results, needs_to_close, alive_event, event_queue, consumer_queue,
          event_process, consumer_process, cache, output_handlers, loops, CACHE, objects,
          ostack, ocall, kwargs, raised, wpc, wcountdown, wevent, wreg, wdrain,
          iter_events, iter_loop, stream_log, proxy, mp_object, mp_created, building,
          cpc, ccountdown, cevent, starts, submitted, executed, handled, closed, idem>>

proxyVars == <<proxy, mp_object, mp_created>>
loopVars == <<has_results, output_handlers, proxyVars, building>>
originVars == <<needs_to_close, event_process, consumer_process, loops, ostack, ocall, kwargs,
                raised, starts, closed, idem>>
cacheVars == <<cache, CACHE, objects, submitted>>
iterVars == <<iter_events, iter_loop, stream_log>>
workerVars == <<wpc, wcountdown, wevent, wreg, wdrain, iterVars, executed>>
consumerVars == <<cpc, ccountdown, cevent, handled>>

\* ------------------------------------------------------------------ output handlers
\* The handlers the origin program installs.  save_record appends
\* event.results to a list and returns None; save_result_object returns True
\* for the result of a cache-aware event and None otherwise;
\* proxy_output_handler returns True for a ProxyEvent.
HandlerReturns(handler, ev) ==
    IF handler = "save_result_object" THEN ev.cls # "Event"
    ELSE IF handler = "proxy_output_handler" THEN ev.cls = "ProxyEvent"
    ELSE FALSE

\* The exception handler(event) raises, "" for none: raise_on_six is a
\* handler of the origin program that raises ValueError for the result 6 and
\* returns None otherwise.
HandlerRaises(handler, ev) ==
    IF handler = "raise_on_six" /\ ev.results = IntV(6) THEN "ValueError" ELSE ""

\* The handler lists a loop is built with (EventLoop.__init__).
HandlerLists ==
    {<<"save_record">>,
     <<"save_result_object", "save_record">>,
     <<"save_record", "save_result_object", "save_results">>}

\* A handler loop without the break.
CallHandlers_nobreak(handlers, ev) == handlers

\* EventLoop.process_output, the handler loop: the handlers called, in order.
RECURSIVE CallHandlers(_, _)
CallHandlers(handlers, ev) ==
    IF handlers = <<>> THEN <<>>
    ELSE IF HandlerReturns(Head(handlers), ev) \/ HandlerRaises(Head(handlers), ev) # ""
    THEN <<Head(handlers)>>
    ELSE <<Head(handlers)>> \o CallHandlers(Tail(handlers), ev)

\* The exception that leaves EventLoop.process_output for one result: the one
\* the last handler called raised, "" for none.
process_output_raises(ev, handlers) ==
    IF ev.error # "" \/ CallHandlers(handlers, ev) = <<>> THEN ""
    ELSE HandlerRaises(CallHandlers(handlers, ev)[Len(CallHandlers(handlers, ev))], ev)

\* A process_output without the test of event.error.
process_output_unfiltered(ev, handlers) ==
    [id |-> ev.id, results |-> ev.results, error |-> ev.error, printed |-> FALSE,
     called |-> CallHandlers(handlers, ev), handlers |-> handlers, cls |-> ev.cls]

\* EventLoop.process_output: what is done with one result (printed: given to
\* print_exception; called: the handlers called).
process_output(ev, handlers) ==
    IF ev.error # ""
    THEN [id |-> ev.id, results |-> ev.results, error |-> ev.error, printed |-> TRUE,
          called |-> <<>>, handlers |-> handlers, cls |-> ev.cls]
    ELSE [id |-> ev.id, results |-> ev.results, error |-> ev.error, printed |-> FALSE,
          called |-> CallHandlers(handlers, ev), handlers |-> handlers, cls |-> ev.cls]

\* ------------------------------------------------------------------ Init
\* EventLoop.__init__
Constructed ==
    /\ needs_to_close = FALSE
    /\ alive_event = FALSE
    /\ event_queue = EmptyQueue
    /\ consumer_queue = EmptyQueue
    /\ event_process = NoProc
    /\ consumer_process = NoProc
    /\ loops = <<>>
    /\ cache = EmptyDict
    /\ CACHE = EmptyDict
    /\ objects = [x \in {"a"} |-> 0]
    /\ ostack = <<>>
    /\ ocall = ""
    /\ kwargs = NoProc
    /\ raised = FALSE
    /\ wpc = [p \in Procs |-> "unborn"]
    /\ wcountdown = [p \in Procs |-> -1]
    /\ wevent = [p \in Procs |-> NoEvent]
    /\ wreg = [p \in Procs |-> NoDicts]
    /\ wdrain = [p \in Procs |-> NotDraining]
    /\ iter_events = <<>>
    /\ iter_loop = NoIterLoop
    /\ stream_log = <<>>
    /\ proxy = NoProxy
    /\ mp_object = NoneV
    /\ mp_created = 0
    /\ building = [t \in Threads |-> NotBuilding]
    /\ cpc = [p \in Procs |-> "unborn"]
    /\ ccountdown = [p \in Procs |-> -1]
    /\ cevent = [p \in Procs |-> NoEvent]
    /\ starts = 0
    /\ submitted = <<>>
    /\ executed = <<>>
    /\ handled = <<>>
    /\ closed = 0
    /\ idem = -1

Init ==
    /\ has_results \in BOOLEAN
    /\ output_handlers = <<"save_record">>
    /\ Constructed

\* ------------------------------------------------------------------ add_event
\* EventLoop.add_cache_event for a callable target: the event built and the
\* origin dicts afterwards.
add_cache_event(id, target, args, has_output, re_register, cch, C) ==
    CacheEvent__init__(id, "CacheEvent", target, args,
                       IF has_output = "None" THEN "True" ELSE has_output,
                       re_register, cch, C)

\* EventLoop.add_event for a callable target.
add_event(id, target, args, has_output, use_cache, re_register, cch, C) ==
    IF use_cache
    THEN add_cache_event(id, target, args, has_output, re_register, cch, C)
    ELSE [event |-> Event__init__(id, target, args,
                                  IF has_output = "None" THEN "True" ELSE has_output),
          cache |-> cch, CACHE |-> C]

\* What is written to a queue for an event: its class's __getstate__.
getstate(ev, heap) ==
    IF ev.cls = "Event" THEN Event__getstate__(ev, heap) ELSE CacheEvent__getstate__(ev, heap)

\* The add_event calls of the origin program: plus_one(5) with and without
\* output, raise_error(), a.increment() as a plain event, as a cache event and
\* as a cache event with re_register.
LifeShapes ==
    {[target |-> plus_one, args |-> <<IntV(5)>>, has_output |-> "None",
      cache |-> FALSE, re_register |-> FALSE],
     [target |-> plus_one, args |-> <<IntV(5)>>, has_output |-> "False",
      cache |-> FALSE, re_register |-> FALSE]}
Shapes ==
    LifeShapes \cup
    {[target |-> raise_error, args |-> <<>>, has_output |-> "None",
      cache |-> FALSE, re_register |-> FALSE],
     [target |-> MethodV(a, "increment"), args |-> <<>>, has_output |-> "None",
      cache |-> FALSE, re_register |-> FALSE],
     [target |-> MethodV(a, "increment"), args |-> <<>>, has_output |-> "None",
      cache |-> TRUE, re_register |-> FALSE],
     [target |-> MethodV(a, "increment"), args |-> <<>>, has_output |-> "None",
      cache |-> TRUE, re_register |-> TRUE]}

Idle == ostack = <<>> /\ ~raised

\* One add_event call; track says whether the history notes that wait() was
\* the call made before it.
AddEvent(shapes, track) ==
    /\ Idle
    /\ Len(submitted) < MaxTasks
    /\ \E sh \in shapes :
         LET r == add_event(Len(submitted) + 1, sh.target, sh.args, sh.has_output,
                            sh.cache, sh.re_register, cache, CACHE)
         IN /\ event_queue' = put(event_queue, getstate(r.event, objects))
            /\ cache' = r.cache
            /\ CACHE' = r.CACHE
            /\ submitted' = Append(submitted,
                                   [ev |-> r.event, gen |-> starts, waited |-> (track /\ ocall = "wait"),
                                    re_register |-> sh.re_register])
    /\ ocall' = "add_event"
    /\ UNCHANGED <<loopVars, needs_to_close, alive_event, consumer_queue, event_process, loops,
                   consumer_process, objects, ostack, kwargs, raised, starts, closed, idem,
                   workerVars, consumerVars>>

\* add_event called on another thread of the origin process, whatever the
\* call in progress on the first.
PushEvent(shapes) ==
    /\ ~raised
    /\ Len(submitted) < MaxTasks
    /\ \E sh \in shapes :
         LET r == add_event(Len(submitted) + 1, sh.target, sh.args, sh.has_output,
                            sh.cache, sh.re_register, cache, CACHE)
         IN /\ event_queue' = put(event_queue, getstate(r.event, objects))
            /\ cache' = r.cache
            /\ CACHE' = r.CACHE
            /\ submitted' = Append(submitted,
                                   [ev |-> r.event, gen |-> starts, waited |-> FALSE,
                                    re_register |-> sh.re_register])
    /\ UNCHANGED <<loopVars, originVars, alive_event, consumer_queue, objects,
                   workerVars, consumerVars>>

\* ------------------------------------------------------------------ submission paths
\* "has_output or target.has_output": None and False are false.
Or(x, y) == IF x = "True" THEN x ELSE y

\* EventLoop.add_event for a target that is an Event the caller built with
\* has_output = built: event = target, put as it is.
add_event_Event(id, target, args, built, cch, C) ==
    [event |-> Event__init__(id, target, args, built), cache |-> cch, CACHE |-> C]

\* EventLoop.add_cache_event for a target that is a plain Event: has_output =
\* has_output or target.has_output, True if that is None, and a CacheEvent
\* is built from the target's target and args.
add_cache_event_Event(id, target, args, built, has_output, re_register, cch, C) ==
    CacheEvent__init__(id, "CacheEvent", target, args,
                       IF Or(has_output, built) = "None" THEN "True" ELSE Or(has_output, built),
                       re_register, cch, C)

\* EventLoop.add_cache_event and EventLoop.cache_object for a target that is
\* a CacheEvent the caller built on the loop's cache: event = target.
add_cache_event_CacheEvent(id, target, args, built, cch, C) ==
    CacheEvent__init__(id, "CacheEvent", target, args, built, FALSE, cch, C)

\* EventLoop.cache_object for an object, and for an Event (the target of the
\* old event is cached, its args are kept): a CacheObjectEvent with the
\* has_output of the call.
cache_object(id, obj, args, has_output, re_register, cch, C) ==
    LET r == CacheEvent__init__(id, "CacheObjectEvent", obj, <<>>, has_output, re_register,
                                cch, C)
    IN [r EXCEPT !.event.args = args]

\* The submissions of the origin program, one for each path: the method
\* called, the has_output argument of the call and, for a target that is an
\* event built by the caller, the has_output the event was built with.
\* add_event and add_cache_event leave has_output unset (None) by default,
\* the constructors default to True, cache_object takes a bool.
HasOutputs == {"None", "True", "False"}
SubmitShapes ==
    {[path |-> "add_event", target |-> plus_one, args |-> <<IntV(5)>>,
      has_output |-> h, built |-> ""] : h \in HasOutputs}
    \cup {[path |-> "add_event(Event)", target |-> plus_one, args |-> <<IntV(5)>>,
           has_output |-> "None", built |-> b] : b \in HasOutputs}
    \cup {[path |-> "add_cache_event", target |-> MethodV(a, "increment"), args |-> <<>>,
           has_output |-> h, built |-> ""] : h \in HasOutputs}
    \cup {[path |-> "add_cache_event(Event)", target |-> MethodV(a, "increment"),
           args |-> <<>>, has_output |-> h, built |-> b] :
              h \in {"None", "False"}, b \in HasOutputs}
    \cup {[path |-> "add_cache_event(CacheEvent)", target |-> MethodV(a, "increment"),
           args |-> <<>>, has_output |-> "None", built |-> b] : b \in HasOutputs}
    \cup {[path |-> "cache_object", target |-> a, args |-> <<>>,
           has_output |-> h, built |-> ""] : h \in {"True", "False"}}
    \cup {[path |-> "cache_object(Event)", target |-> MethodV(a, "increment"),
           args |-> <<>>, has_output |-> "False", built |-> b] : b \in HasOutputs}

\* The event a submission puts on event_queue and the origin dicts afterwards.
Submission(id, sh, cch, C) ==
    IF sh.path = "add_event"
    THEN add_event(id, sh.target, sh.args, sh.has_output, FALSE, FALSE, cch, C)
    ELSE IF sh.path = "add_event(Event)"
    THEN add_event_Event(id, sh.target, sh.args, sh.built, cch, C)
    ELSE IF sh.path = "add_cache_event"
    THEN add_cache_event(id, sh.target, sh.args, sh.has_output, FALSE, cch, C)
    ELSE IF sh.path = "add_cache_event(Event)"
    THEN add_cache_event_Event(id, sh.target, sh.args, sh.built, sh.has_output, FALSE, cch, C)
    ELSE IF sh.path = "add_cache_event(CacheEvent)"
    THEN add_cache_event_CacheEvent(id, sh.target, sh.args, sh.built, cch, C)
    ELSE cache_object(id, sh.target, sh.args, sh.has_output, FALSE, cch, C)

\* One call of add_event, add_cache_event or cache_object.
SubmitEvent ==
    /\ Idle
    /\ Len(submitted) < MaxTasks
    /\ \E sh \in SubmitShapes :
         LET r == Submission(Len(submitted) + 1, sh, cache, CACHE)
         IN /\ event_queue' = put(event_queue, getstate(r.event, objects))
            /\ cache' = r.cache
            /\ CACHE' = r.CACHE
            /\ submitted' = Append(submitted,
                                   [ev |-> r.event, gen |-> starts, waited |-> FALSE,
                                    re_register |-> FALSE, path |-> sh.path,
                                    has_output |-> sh.has_output, built |-> sh.built])
    /\ ocall' = "add_event"
    /\ UNCHANGED <<loopVars, needs_to_close, alive_event, consumer_queue, event_process, loops,
                   consumer_process, objects, ostack, kwargs, raised, starts, closed, idem,
                   workerVars, consumerVars>>

\* ------------------------------------------------------------------ lifecycle
\* EventLoop.is_event_process_alive / is_consumer_process_alive
is_event_process_alive == event_process # NoProc /\ wpc[event_process] # "exited"
is_consumer_process_alive == consumer_process # NoProc /\ cpc[consumer_process] # "exited"

\* close() without its _needs_to_close guard.
close_unguarded(rest) ==
    /\ needs_to_close' = FALSE
    /\ closed' = closed + 1
    /\ ostack' = <<"wait", "wait_consumer", "stop", "join_event", "join_consumer">> \o rest
    /\ UNCHANGED <<loopVars, alive_event, event_queue, consumer_queue, event_process, loops,
                   consumer_process, kwargs, raised, starts, cacheVars, workerVars,
                   consumerVars>>

\* EventLoop.close up to its calls of wait() and stop(); rest is what the
\* caller does afterwards.
close(rest) ==
    /\ IF ~needs_to_close
       THEN /\ ostack' = rest
            /\ UNCHANGED <<needs_to_close, closed>>
       ELSE /\ needs_to_close' = FALSE
            /\ closed' = closed + 1
            /\ ostack' = <<"wait", "wait_consumer", "stop", "join_event", "join_consumer">>
                         \o rest
    /\ UNCHANGED <<loopVars, alive_event, event_queue, consumer_queue, event_process, loops,
                   consumer_process, kwargs, raised, starts, cacheVars, workerVars,
                   consumerVars>>

\* A wait() that clears alive_event as stop() does.
wait_clearing(rest) ==
    /\ ostack' = IF is_event_process_alive THEN <<"event_queue.join">> \o rest ELSE rest
    /\ alive_event' = FALSE
    /\ UNCHANGED <<loopVars, needs_to_close, event_queue, consumer_queue,
                   event_process, loops, consumer_process, kwargs, raised, starts, closed,
                   cacheVars, workerVars, consumerVars>>

\* EventLoop.wait, first half: if self.is_event_process_alive(): join the queue.
wait(rest) ==
    /\ ostack' = IF is_event_process_alive THEN <<"event_queue.join">> \o rest ELSE rest
    /\ UNCHANGED <<loopVars, needs_to_close, alive_event, event_queue, consumer_queue,
                   event_process, loops, consumer_process, kwargs, raised, starts, closed,
                   cacheVars, workerVars, consumerVars>>

\* EventLoop.wait, second half: if self.is_consumer_process_alive(): join.
wait_consumer(rest) ==
    /\ ostack' = IF is_consumer_process_alive THEN <<"consumer_queue.join">> \o rest
                 ELSE rest
    /\ UNCHANGED <<loopVars, needs_to_close, alive_event, event_queue, consumer_queue,
                   event_process, loops, consumer_process, kwargs, raised, starts, closed,
                   cacheVars, workerVars, consumerVars>>

\* A join that returns at once.
join_nowait(que, rest) ==
    /\ ostack' = rest
    /\ UNCHANGED <<loopVars, needs_to_close, alive_event, event_queue, consumer_queue,
                   event_process, loops, consumer_process, kwargs, raised, starts, closed,
                   cacheVars, workerVars, consumerVars>>

\* JoinableQueue.join: returns once every item put has been marked done.
join(que, rest) ==
    /\ que.unfinished = 0
    /\ ostack' = rest
    /\ UNCHANGED <<loopVars, needs_to_close, alive_event, event_queue, consumer_queue,
                   event_process, loops, consumer_process, kwargs, raised, starts, closed,
                   cacheVars, workerVars, consumerVars>>

\* A stop() that also puts a stop item, which is no task, on the task channel.
stop_with_sentinel(rest) ==
    /\ kwargs' = IF has_results THEN consumer_process ELSE NoProc
    /\ consumer_process' = IF has_results THEN NoProc ELSE consumer_process
    /\ alive_event' = FALSE
    /\ event_queue' = put(event_queue,
                          [Event__init__(0, NoneV, <<>>, "False") EXCEPT !.cls = "Sentinel"])
    /\ ostack' = rest
    /\ UNCHANGED <<loopVars, needs_to_close, consumer_queue, event_process, loops,
                   raised, starts, closed, cacheVars, workerVars, consumerVars>>

\* EventLoop.stop up to the joins of stop_event_loop: the consumer thread is
\* handed over in kwargs and alive_event is cleared.
stop(rest) ==
    /\ kwargs' = IF has_results THEN consumer_process ELSE NoProc
    /\ consumer_process' = IF has_results THEN NoProc ELSE consumer_process
    /\ alive_event' = FALSE
    /\ ostack' = rest
    /\ UNCHANGED <<loopVars, needs_to_close, event_queue, consumer_queue, event_process, loops,
                   raised, starts, closed, cacheVars, workerVars, consumerVars>>

\* proc.join() without the try/except: None.join() raises AttributeError.
TryJoin_uncaught(proc, pcs) ==
    IF proc = NoProc THEN "raise"
    ELSE IF pcs[proc] = "exited" THEN "joined" ELSE "blocked"

\* A proc.join() that returns at once, whether the process has ended or not.
TryJoin_nowait(proc, pcs) == IF proc = NoProc THEN "pass" ELSE "joined"

\* proc.join() inside try/except (AttributeError, Exception): pass
\* "pass": None has no join, the error is swallowed; "joined": the process or
\* thread has ended; "blocked": it has not.
TryJoin(proc, pcs) ==
    IF proc = NoProc THEN "pass"
    ELSE IF pcs[proc] = "exited" THEN "joined" ELSE "blocked"

\* stop_event_loop: event_process.join()
join_event(rest) ==
    /\ TryJoin(event_process, wpc) # "blocked"
    /\ IF TryJoin(event_process, wpc) = "raise"
       THEN raised' = TRUE /\ ostack' = <<>>
       ELSE raised' = raised /\ ostack' = rest
    /\ UNCHANGED <<loopVars, needs_to_close, alive_event, event_queue, consumer_queue,
                   event_process, loops, consumer_process, kwargs, starts, closed,
                   cacheVars, workerVars, consumerVars>>

\* stop_event_loop: consumer_process.join(); then EventLoop.stop sets
\* self.event_process = None.
join_consumer(rest) ==
    /\ TryJoin(kwargs, cpc) # "blocked"
    /\ IF TryJoin(kwargs, cpc) = "raise"
       THEN raised' = TRUE /\ ostack' = <<>> /\ UNCHANGED event_process
       ELSE raised' = raised /\ ostack' = rest /\ event_process' = NoProc
    /\ kwargs' = NoProc
    /\ UNCHANGED <<loopVars, needs_to_close, alive_event, event_queue, consumer_queue,
                   consumer_process, loops, starts, closed, cacheVars, workerVars, consumerVars>>

\* The dicts a new worker process starts with: nothing (the spawn start method,
\* or no CacheEvent built yet), or under fork a copy of the origin's as they
\* are at this moment.
ForkedDicts(p) ==
    [CACHE |-> CACHE,
     cache |-> [k \in DOMAIN cache |->
                  IF cache[k].t = "obj"
                  THEN [cache[k] EXCEPT !.n = objects[cache[k].s], !.i = 0 - p]
                  ELSE cache[k]]]

\* EventLoop.start after its close(): start_event_loop, start_consumer_loop,
\* _needs_to_close = True.
start_loops(rest) ==
    LET p == starts + 1
    IN /\ alive_event' = TRUE
       /\ event_process' = p
       /\ wpc' = [wpc EXCEPT ![p] = "next"]
       /\ \E d \in {NoDicts, ForkedDicts(p)} : wreg' = [wreg EXCEPT ![p] = d]
       /\ IF has_results
          THEN /\ consumer_process' = p
               /\ cpc' = [cpc EXCEPT ![p] = "next"]
          ELSE UNCHANGED <<consumer_process, cpc>>
       /\ needs_to_close' = TRUE
       /\ starts' = p
       /\ closed' = 0
       /\ ostack' = rest
       /\ UNCHANGED <<loopVars, event_queue, consumer_queue, loops, kwargs, raised,
                      cacheVars, wcountdown, wevent, wdrain, iterVars, executed, ccountdown,
                      cevent,
                      handled>>

\* The calls of the origin thread.
Start ==
    /\ Idle /\ starts < MaxStarts
    /\ ocall' = "start" /\ UNCHANGED idem
    /\ close(<<"start_loops">>)

Stop ==
    /\ Idle
    /\ ocall' = "stop"
    /\ idem' = IF idem = -1 /\ (ocall \in {"stop", "close"} \/ starts = 0) THEN starts ELSE idem
    /\ stop(<<"join_event", "join_consumer">>)

Close ==
    /\ Idle
    /\ ocall' = "close"
    /\ idem' = IF idem = -1 /\ (ocall \in {"stop", "close"} \/ starts = 0) THEN starts ELSE idem
    /\ close(<<>>)

Wait ==
    /\ Idle
    /\ ocall' = "wait" /\ UNCHANGED idem
    /\ wait(<<"wait_consumer">>)

\* EventLoop.run() without events and EventLoop.__enter__:
\* if not self.is_running(): self.start()
Run ==
    /\ Idle
    /\ ocall' = "run" /\ UNCHANGED idem
    /\ IF alive_event
       THEN UNCHANGED <<loopVars, needs_to_close, alive_event, event_queue, consumer_queue,
                        event_process, loops, consumer_process, ostack, kwargs, raised, starts,
                        closed, cacheVars, workerVars, consumerVars>>
       ELSE starts < MaxStarts /\ close(<<"start_loops">>)

Enter ==
    /\ Idle
    /\ ocall' = "__enter__" /\ UNCHANGED idem
    /\ IF alive_event
       THEN UNCHANGED <<loopVars, needs_to_close, alive_event, event_queue, consumer_queue,
                        event_process, loops, consumer_process, ostack, kwargs, raised, starts,
                        closed, cacheVars, workerVars, consumerVars>>
       ELSE starts < MaxStarts /\ close(<<"start_loops">>)

\* EventLoop.__exit__: self.close()
Exit ==
    /\ Idle
    /\ ocall' = "__exit__" /\ UNCHANGED idem
    /\ close(<<>>)

\* The steps of a call in progress.
Running(step) == ostack # <<>> /\ Head(ostack) = step /\ UNCHANGED <<ocall, idem>>

WaitStep == Running("wait") /\ wait(Tail(ostack))
WaitConsumerStep == Running("wait_consumer") /\ wait_consumer(Tail(ostack))
EventQueueJoin == Running("event_queue.join") /\ join(event_queue, Tail(ostack))
ConsumerQueueJoin == Running("consumer_queue.join") /\ join(consumer_queue, Tail(ostack))
StopStep == Running("stop") /\ stop(Tail(ostack))
JoinEvent == Running("join_event") /\ join_event(Tail(ostack))
JoinConsumer == Running("join_consumer") /\ join_consumer(Tail(ostack))
StartLoops == Running("start_loops") /\ start_loops(Tail(ostack))

\* ------------------------------------------------------------------ Pool
\* EventLoop.is_event_process_alive as a Pool inherits it: self.event_process,
\* which a Pool never sets.
Pool_is_event_process_alive_inherited == is_event_process_alive

\* Pool.is_event_process_alive: any(loop.is_event_process_alive() for loop in loops)
Pool_is_event_process_alive == \E i \in 1..Len(loops) : wpc[loops[i]] # "exited"

\* A wait that returns without event_queue.join().
Pool_wait_nojoin(rest) ==
    /\ ostack' = rest
    /\ UNCHANGED <<loopVars, needs_to_close, alive_event, event_queue, consumer_queue,
                   event_process, loops, consumer_process, kwargs, raised, starts, closed,
                   cacheVars, workerVars, consumerVars>>

\* EventLoop.wait on a Pool, first half.
Pool_wait(rest) ==
    /\ ostack' = IF Pool_is_event_process_alive THEN <<"event_queue.join">> \o rest
                 ELSE rest
    /\ UNCHANGED <<loopVars, needs_to_close, alive_event, event_queue, consumer_queue,
                   event_process, loops, consumer_process, kwargs, raised, starts, closed,
                   cacheVars, workerVars, consumerVars>>

\* EventLoop.close on a Pool: wait(), then Pool.stop, which is EventLoop.stop
\* followed by loop.stop() for every loop.
Pool_close(rest) ==
    /\ IF ~needs_to_close
       THEN /\ ostack' = rest
            /\ UNCHANGED <<needs_to_close, closed>>
       ELSE /\ needs_to_close' = FALSE
            /\ closed' = closed + 1
            /\ ostack' = <<"Pool.wait", "wait_consumer", "stop", "join_event",
                           "join_consumer", "loops.stop">> \o rest
    /\ UNCHANGED <<loopVars, alive_event, event_queue, consumer_queue, event_process, loops,
                   consumer_process, kwargs, raised, starts, cacheVars, workerVars,
                   consumerVars>>

\* Pool.stop after super().stop(): loop.stop() for every loop (alive_event is
\* cleared and the loop's process joined), then self.loops = [].
Pool_stop_loops(rest) ==
    /\ \A i \in 1..Len(loops) : wpc[loops[i]] = "exited"
    /\ alive_event' = FALSE
    /\ loops' = <<>>
    /\ ostack' = rest
    /\ UNCHANGED <<loopVars, needs_to_close, event_queue, consumer_queue, event_process,
                   consumer_process, kwargs, raised, starts, closed, cacheVars, workerVars,
                   consumerVars>>

\* EventLoop.start on a Pool after its close(): Pool.start_event_loop starts
\* one process per loop on the shared queues and alive_event, then
\* start_consumer_loop, _needs_to_close = True.
Pool_start_loops(rest) ==
    LET new == [i \in 1..PoolSize |-> Len(loops) + i]
        pids == {new[i] : i \in 1..PoolSize}
    IN /\ alive_event' = TRUE
       /\ loops' = loops \o new
       /\ wpc' = [p \in Procs |-> IF p \in pids THEN "next" ELSE wpc[p]]
       /\ \E fork \in BOOLEAN :
            wreg' = [p \in Procs |-> IF p \notin pids THEN wreg[p]
                                     ELSE IF fork THEN ForkedDicts(p) ELSE NoDicts]
       /\ IF has_results
          THEN /\ consumer_process' = 1
               /\ cpc' = [cpc EXCEPT ![1] = "next"]
          ELSE UNCHANGED <<consumer_process, cpc>>
       /\ needs_to_close' = TRUE
       /\ starts' = starts + 1
       /\ closed' = 0
       /\ ostack' = rest
       /\ UNCHANGED <<loopVars, event_queue, consumer_queue, event_process, kwargs, raised,
                      cacheVars, wcountdown, wevent, wdrain, iterVars, executed, ccountdown,
                      cevent,
                      handled>>

\* The elements Pool.map is called with: the numbers from MapBase on, which
\* tell the tasks of map from those of add_event.
MapBase == 10
MapTasks == {k \in 1..Len(submitted) : submitted[k].ev.args[1].n >= MapBase}

\* Pool.map, the body of its for loop for an element that is not iterable:
\* iter(args) raises TypeError, then self.add_event(func, args, cache=cache)
Pool_map_add_event(rest) ==
    LET r == add_event(Len(submitted) + 1, plus_one,
                       <<IntV(MapBase + Cardinality(MapTasks))>>, "None", FALSE, FALSE,
                       cache, CACHE)
    IN /\ event_queue' = put(event_queue, getstate(r.event, objects))
       /\ cache' = r.cache
       /\ CACHE' = r.CACHE
       /\ submitted' = Append(submitted, [ev |-> r.event, gen |-> starts, waited |-> FALSE,
                                          re_register |-> FALSE])
       /\ ostack' = rest
       /\ UNCHANGED <<loopVars, needs_to_close, alive_event, consumer_queue, event_process,
                      loops, consumer_process, objects, kwargs, raised, starts, closed,
                      workerVars, consumerVars>>

\* The calls of the origin thread on a Pool.
PoolStart ==
    /\ Idle /\ starts = 0
    /\ ocall' = "start" /\ UNCHANGED idem
    /\ Pool_close(<<"Pool.start_loops">>)

PoolClose ==
    /\ Idle
    /\ ocall' = "close" /\ UNCHANGED idem
    /\ Pool_close(<<>>)

PoolWait ==
    /\ Idle
    /\ ocall' = "wait" /\ UNCHANGED idem
    /\ Pool_wait(<<"wait_consumer">>)

\* Pool.map(plus_one, iter_args) on a started Pool, with as many elements as
\* the run has add_event calls left: the for loop, then self.wait().
PoolMap ==
    /\ Idle /\ loops # <<>>
    /\ Len(submitted) < MaxTasks
    /\ ocall' = "map"
    /\ ostack' = [i \in 1..(MaxTasks - Len(submitted)) |-> "map.add_event"]
                 \o <<"Pool.wait", "wait_consumer">>
    /\ UNCHANGED <<loopVars, needs_to_close, alive_event, event_queue, consumer_queue,
                   event_process, loops, consumer_process, kwargs, raised, starts, closed,
                   idem, cacheVars, workerVars, consumerVars>>

\* add_event on a Pool that has not been closed.
AddPoolEvent == closed = 0 /\ AddEvent(LifeShapes, FALSE)

PoolMapAddEvent == Running("map.add_event") /\ Pool_map_add_event(Tail(ostack))
PoolWaitStep == Running("Pool.wait") /\ Pool_wait(Tail(ostack))
PoolStopLoops == Running("loops.stop") /\ Pool_stop_loops(Tail(ostack))
PoolStartLoops == Running("Pool.start_loops") /\ Pool_start_loops(Tail(ostack))

\* ------------------------------------------------------------------ run_event_loop
\* A worker process has no access to the origin heap: what it pickles carries
\* its own state.
NoHeap == [x \in {} |-> 0]

\* for _ in LoopQueueSize(alive_event, event_queue): the iterator's __next__;
\* on StopIteration the loop is left and alive_event.clear() ends the process.
WorkerNext(p) ==
    /\ wpc[p] = "next"
    /\ LET r == LoopQueueSize__next__(wcountdown[p], alive_event, qsize(event_queue))
       IN IF r.go
          THEN /\ wpc' = [wpc EXCEPT ![p] = "get"]
               /\ wcountdown' = [wcountdown EXCEPT ![p] = r.countdown]
               /\ wdrain' = IF wcountdown[p] = -1 /\ r.countdown # -1
                            THEN [wdrain EXCEPT ![p] = [snap |-> qsize(event_queue),
                                                        got |-> 0]]
                            ELSE wdrain
               /\ UNCHANGED <<alive_event, wreg>>
          ELSE /\ wpc' = [wpc EXCEPT ![p] = "exited"]
               /\ wcountdown' = [wcountdown EXCEPT ![p] = -1]
               /\ wreg' = [wreg EXCEPT ![p] = NoDicts]
               /\ wdrain' = [wdrain EXCEPT ![p] = NotDraining]
               /\ alive_event' = FALSE
    /\ UNCHANGED <<loopVars, originVars, cacheVars, event_queue, consumer_queue, wevent,
                   iterVars, executed, consumerVars>>

\* event = event_queue.get(timeout=QUEUE_TIMEOUT): the head of the queue,
\* unpickled in this process, or Empty when nothing came in time.  An
\* exception of __setstate__ leaves get() and, not being Empty,
\* run_event_loop: the process ends with the item taken and not marked done.
WorkerGet(p) ==
    /\ wpc[p] = "get"
    /\ IF qsize(event_queue) > 0
       THEN LET state == Head(event_queue.items)
                r == IF state.cls = "Event"
                     THEN [event |-> Event__setstate__(state, state.id), reg |-> wreg[p],
                           error |-> ""]
                     ELSE CacheEvent__setstate__(state, wreg[p], state.id)
            IN /\ event_queue' = [event_queue EXCEPT !.items = Tail(@)]
               /\ IF r.error # ""
                  THEN /\ wpc' = [wpc EXCEPT ![p] = "exited"]
                       /\ wreg' = [wreg EXCEPT ![p] = NoDicts]
                       /\ wdrain' = [wdrain EXCEPT ![p] = NotDraining]
                       /\ UNCHANGED wevent
                  ELSE /\ wevent' = [wevent EXCEPT ![p] = r.event]
                       /\ wreg' = [wreg EXCEPT ![p] = r.reg]
                       /\ wpc' = [wpc EXCEPT ![p] = "exec"]
                       /\ wdrain' = IF wdrain[p].snap = -1 THEN wdrain
                                    ELSE [wdrain EXCEPT ![p].got = @ + 1]
       ELSE /\ wpc' = [wpc EXCEPT ![p] = "next"]
            /\ UNCHANGED <<event_queue, wevent, wreg, wdrain>>
    /\ UNCHANGED <<loopVars, originVars, cacheVars, alive_event, consumer_queue, wcountdown,
                   iterVars, executed, consumerVars>>

\* process_event: event.exec_() and, if consumer_queue and event.has_output,
\* consumer_queue.put(event).  The queue after the call.
process_event(ev, que) ==
    IF ev.has_output = "True" THEN put(que, getstate(ev, NoHeap)) ELSE que

\* The event after exec_.
exec_(ev) == IF ev.cls = "Event" THEN Event_exec_(ev) ELSE CacheEvent_exec_(ev)

\* An exception that leaves exec_ leaves process_event and, after the finally
\* clause (mark_task_done), run_event_loop: the process ends.
WorkerExec(p) ==
    /\ wpc[p] = "exec"
    /\ IF Propagates(wevent[p])
       THEN /\ event_queue' = mark_task_done(event_queue)
            /\ wpc' = [wpc EXCEPT ![p] = "exited"]
            /\ wevent' = [wevent EXCEPT ![p] = NoEvent]
            /\ wreg' = [wreg EXCEPT ![p] = NoDicts]
            /\ wdrain' = [wdrain EXCEPT ![p] = NotDraining]
            /\ UNCHANGED <<objects, consumer_queue, executed>>
       ELSE LET ev == exec_(wevent[p])
            IN /\ wevent' = [wevent EXCEPT ![p] = ev]
               /\ wreg' = [wreg EXCEPT ![p] = [CACHE |-> Mutated(@.CACHE, ev.target),
                                               cache |-> Mutated(@.cache, ev.target)]]
               /\ objects' = MutatedHeap(objects, ev.target)
               /\ consumer_queue' = process_event(ev, consumer_queue)
               /\ executed' = Append(executed,
                                     [id |-> ev.id, cls |-> ev.cls, pid |-> p,
                                      before |-> wevent[p].target, after |-> ev.target,
                                      args |-> wevent[p].args,
                                      results |-> ev.results, error |-> ev.error])
               /\ wpc' = [wpc EXCEPT ![p] = "done"]
               /\ UNCHANGED <<event_queue, wdrain>>
    /\ UNCHANGED <<loopVars, originVars, cache, CACHE, submitted, alive_event,
                   wcountdown, iterVars, consumerVars>>

\* finally: mark_task_done(event_queue)
WorkerDone(p) ==
    /\ wpc[p] = "done"
    /\ event_queue' = mark_task_done(event_queue)
    /\ wevent' = [wevent EXCEPT ![p] = NoEvent]
    /\ wpc' = [wpc EXCEPT ![p] = "next"]
    /\ UNCHANGED <<loopVars, originVars, cacheVars, alive_event, consumer_queue, wcountdown,
                   wreg, wdrain, iterVars, executed, consumerVars>>

\* ------------------------------------------------------------------ run_consumer_loop
ConsumerNext(c) ==
    /\ cpc[c] = "next"
    /\ LET r == LoopQueueSize__next__(ccountdown[c], alive_event, qsize(consumer_queue))
       IN IF r.go
          THEN /\ cpc' = [cpc EXCEPT ![c] = "get"]
               /\ ccountdown' = [ccountdown EXCEPT ![c] = r.countdown]
               /\ UNCHANGED alive_event
          ELSE /\ cpc' = [cpc EXCEPT ![c] = "exited"]
               /\ ccountdown' = [ccountdown EXCEPT ![c] = -1]
               /\ alive_event' = FALSE
    /\ UNCHANGED <<loopVars, originVars, cacheVars, event_queue, consumer_queue, cevent,
                   handled, workerVars>>

\* event = consumer_queue.get(timeout=QUEUE_TIMEOUT), unpickled in the origin
\* process (instances 0 - id are the copies made there).
ConsumerGet(c) ==
    /\ cpc[c] = "get"
    /\ IF qsize(consumer_queue) > 0
       THEN LET state == Head(consumer_queue.items)
                r == IF state.cls = "Event"
                     THEN [event |-> Event__setstate__(state, 0 - state.id),
                           reg |-> [CACHE |-> CACHE, cache |-> cache]]
                     ELSE CacheEvent__setstate__(state, [CACHE |-> CACHE, cache |-> cache],
                                                 0 - state.id)
            IN /\ consumer_queue' = [consumer_queue EXCEPT !.items = Tail(@)]
               /\ cevent' = [cevent EXCEPT ![c] = r.event]
               /\ CACHE' = r.reg.CACHE
               /\ cache' = r.reg.cache
               /\ cpc' = [cpc EXCEPT ![c] = "process"]
       ELSE /\ cpc' = [cpc EXCEPT ![c] = "next"]
            /\ UNCHANGED <<consumer_queue, cevent, CACHE, cache>>
    /\ UNCHANGED <<loopVars, originVars, objects, submitted, alive_event, event_queue,
                   ccountdown, handled, workerVars>>

\* if isinstance(event, Event): process_output(event)
ConsumerProcess(c) ==
    /\ cpc[c] = "process"
    /\ handled' = Append(handled, process_output(cevent[c], output_handlers))
    /\ cpc' = [cpc EXCEPT ![c] = IF process_output_raises(cevent[c], output_handlers) = ""
                                 THEN "done" ELSE "raise"]
    /\ UNCHANGED <<loopVars, originVars, cacheVars, alive_event, event_queue, consumer_queue,
                   ccountdown, cevent, workerVars>>

\* finally: mark_task_done(consumer_queue)
ConsumerDone(c) ==
    /\ cpc[c] = "done"
    /\ consumer_queue' = mark_task_done(consumer_queue)
    /\ cevent' = [cevent EXCEPT ![c] = NoEvent]
    /\ cpc' = [cpc EXCEPT ![c] = "next"]
    /\ UNCHANGED <<loopVars, originVars, cacheVars, alive_event, event_queue, ccountdown,
                   handled, workerVars>>

\* process_output raised: finally: mark_task_done(consumer_queue), and the
\* exception, which is not Empty, leaves the for loop and ends the thread;
\* alive_event.clear() is not reached.
ConsumerRaise(c) ==
    /\ cpc[c] = "raise"
    /\ consumer_queue' = mark_task_done(consumer_queue)
    /\ cevent' = [cevent EXCEPT ![c] = NoEvent]
    /\ cpc' = [cpc EXCEPT ![c] = "exited"]
    /\ UNCHANGED <<loopVars, originVars, cacheVars, alive_event, event_queue, ccountdown,
                   handled, workerVars>>

\* ------------------------------------------------------------------ run_iter_event_loop
\* The iterables the origin program submits as targets: MyIter(name, value),
\* whose __next__ returns value, value - 1, .. 1 and raises StopIteration from
\* then on, and Cycle(name), an iterator that returns 0, 1, 0, 1, .. for ever.
MyIter(name, value) == [t |-> "iter", s |-> name, n |-> value, i |-> 0, m |-> ""]
Cycle(name) == [t |-> "cycle", s |-> name, n |-> 0, i |-> 0, m |-> ""]
\* An iterator object whose __next__ counts its calls (n): the second call
\* raises the exception exc, the fourth and later ones StopIteration, the others
\* return the count.
Bad(name, exc) == [t |-> "bad", s |-> name, n |-> 0, i |-> 0, m |-> exc]

\* is_iterable: not callable(obj) and hasattr(obj, '__iter__')
is_iterable(obj) == ~callable(obj) /\ obj.t \in {"iter", "cycle", "bad", "str", "dict"}

\* next(event.iter): the value, the exception raised ("" for none) and the
\* iterator afterwards.  MyIter.__next__ takes self.index, decrements it and
\* raises when it has become -1; a str or a dict is not an iterator.
Next_(it) ==
    IF it.t = "iter"
    THEN IF it.n - 1 <= -1
         THEN [value |-> NoneV, error |-> "StopIteration", iter |-> [it EXCEPT !.n = @ - 1]]
         ELSE [value |-> IntV(it.n), error |-> "", iter |-> [it EXCEPT !.n = @ - 1]]
    ELSE IF it.t = "cycle"
    THEN [value |-> IntV(it.n), error |-> "", iter |-> [it EXCEPT !.n = 1 - @]]
    ELSE IF it.t = "bad"
    THEN LET calls == it.n + 1
         IN [value |-> IF calls \in {1, 3} THEN IntV(calls) ELSE NoneV,
             error |-> IF calls = 2 THEN it.m ELSE IF calls >= 4 THEN "StopIteration" ELSE "",
             iter |-> [it EXCEPT !.n = calls]]
    ELSE [value |-> NoneV, error |-> "TypeError", iter |-> it]

\* The exceptions of next() that run_iter_event_loop takes for the end of the
\* stream: except (TypeError, StopIteration).
Exhaustion_any == {"TypeError", "StopIteration", "RuntimeError"}
Exhaustion == {"TypeError", "StopIteration"}

\* IterEventMixin.exec_
IterEventMixin_exec_(ev) ==
    IF is_iterable(ev.target) THEN [ev EXCEPT !.results = ev.target, !.error = ""]
    ELSE IF callable(ev.target)
    THEN LET r == run(ev.target, ev.args)
         IN [ev EXCEPT !.results = r.results, !.error = r.error, !.target = r.target]
    ELSE [ev EXCEPT !.results = NoneV, !.error = "ValueError"]

\* iter_events.pop(i): the list afterwards, or IndexError when i is out of
\* range (i counts from 0).
pop(list, i) ==
    IF i >= Len(list) THEN [list |-> list, error |-> "IndexError"]
    ELSE [list |-> SubSeq(list, 1, i) \o SubSeq(list, i + 2, Len(list)), error |-> ""]

\* LoopIterQueueSize.__next__ with len(self.iter_events) = len.
LoopIterQueueSize__next__(countdown, len, alive, qs) ==
    IF countdown > 0 THEN [countdown |-> countdown - 1, go |-> countdown - 1 # 0]
    ELSE IF len > 0 THEN [countdown |-> countdown, go |-> TRUE]
    ELSE LET c == IF alive /\ is_parent_process_alive THEN countdown ELSE qs
         IN [countdown |-> c, go |-> c # 0]

\* for _ in LoopIterQueueSize(alive_event, event_queue, iter_events)
IterWorkerNext(p) ==
    /\ wpc[p] = "next"
    /\ LET r == LoopIterQueueSize__next__(wcountdown[p], Len(iter_events), alive_event,
                                          qsize(event_queue))
       IN /\ wcountdown' = [wcountdown EXCEPT ![p] = r.countdown]
          /\ IF r.go
             THEN /\ wpc' = [wpc EXCEPT ![p] = "get"]
                  /\ UNCHANGED alive_event
             ELSE /\ wpc' = [wpc EXCEPT ![p] = "exited"]
                  /\ alive_event' = FALSE
    /\ UNCHANGED <<loopVars, originVars, cacheVars, event_queue, consumer_queue, wevent,
                   wreg, wdrain, iterVars, executed, consumerVars>>

\* The receive at the head of an iteration of run_iter_event_loop:
\* event_queue.get_nowait() if not event_queue.empty(), else
\* event_queue.get(timeout=QUEUE_TIMEOUT) if len(iter_events) == 0, else none.
Receive_blocking(qs, len) == IF qs > 0 THEN "get_nowait" ELSE "get"

Receive(qs, len) ==
    IF qs > 0 THEN "get_nowait" ELSE IF len = 0 THEN "get" ELSE "none"

\* The head of event_queue becomes the event in hand.
TakeEvent(p) ==
    /\ event_queue' = [event_queue EXCEPT !.items = Tail(@)]
    /\ wevent' = [wevent EXCEPT ![p] =
                      Event__setstate__(Head(event_queue.items),
                                        Head(event_queue.items).id)]
    /\ wpc' = [wpc EXCEPT ![p] = "exec"]
    /\ UNCHANGED iter_loop

\* No event in hand: the for loop over iter_events starts.
StartAdvance(p) ==
    /\ wpc' = [wpc EXCEPT ![p] = "advance"]
    /\ iter_loop' = [NoIterLoop EXCEPT !.n = Len(iter_events),
                                       !.pending = [k \in 1..Len(iter_events) |->
                                                       iter_events[k].event.id]]
    /\ UNCHANGED <<event_queue, wevent>>

IterWorkerGet(p) ==
    /\ wpc[p] = "get"
    /\ LET receive == Receive(qsize(event_queue), Len(iter_events))
       IN CASE receive = "get_nowait" -> TakeEvent(p)
            [] receive = "get" -> /\ wpc' = [wpc EXCEPT ![p] = "blocked"]
                                  /\ UNCHANGED <<event_queue, wevent, iter_loop>>
            [] receive = "none" -> StartAdvance(p)
    /\ UNCHANGED <<loopVars, originVars, cacheVars, alive_event, consumer_queue, wcountdown,
                   wreg, wdrain, iter_events, stream_log, executed, consumerVars>>

\* The worker blocked in event_queue.get(timeout=QUEUE_TIMEOUT): an event
\* that is or comes on the queue is taken, or the timeout passes (Empty).
IterWorkerBlocked(p) ==
    /\ wpc[p] = "blocked"
    /\ IF qsize(event_queue) > 0 THEN TakeEvent(p) ELSE StartAdvance(p)
    /\ UNCHANGED <<loopVars, originVars, cacheVars, alive_event, consumer_queue, wcountdown,
                   wreg, wdrain, iter_events, stream_log, executed, consumerVars>>

\* if isinstance(event, Event): event.exec_(); an iterable result makes the
\* event a pending stream, any other result of a has_output event is put on
\* consumer_queue and the task marked done.  Then the for loop starts.
IterWorkerExec(p) ==
    /\ wpc[p] = "exec"
    /\ LET ev == IterEventMixin_exec_(wevent[p])
           events == IF is_iterable(ev.results)
                     THEN Append(iter_events, [event |-> ev, iter |-> ev.results])
                     ELSE iter_events
       IN /\ iter_events' = events
          /\ IF ~is_iterable(ev.results) /\ ev.has_output = "True"
             THEN /\ consumer_queue' = put(consumer_queue, Event__getstate__(ev, NoHeap))
                  /\ event_queue' = mark_task_done(event_queue)
             ELSE UNCHANGED <<consumer_queue, event_queue>>
          /\ executed' = Append(executed,
                                [id |-> ev.id, cls |-> ev.cls, pid |-> p,
                                 before |-> wevent[p].target, after |-> ev.target,
                                 results |-> ev.results, error |-> ev.error])
          /\ iter_loop' = [NoIterLoop EXCEPT !.n = Len(events),
                                             !.pending = [k \in 1..Len(events) |->
                                                             events[k].event.id]]
    /\ wevent' = [wevent EXCEPT ![p] = NoEvent]
    /\ wpc' = [wpc EXCEPT ![p] = "advance"]
    /\ UNCHANGED <<loopVars, originVars, cacheVars, alive_event, wcountdown, wreg, wdrain,
                   stream_log, consumerVars>>

\* One pass of "for i in range(len(iter_events))": event = iter_events[i + offset],
\* new_event = copy.copy(event), new_event.results = next(event.iter).  On
\* TypeError or StopIteration iter_events.pop(i), offset -= 1 and
\* mark_task_done(event_queue); an IndexError of pop ends the process.
\* On another exception new_event.error = err, and new_event.results is still
\* the iterator.  Otherwise new_event is put on consumer_queue if it has output.
IterWorkerAdvance(p) ==
    /\ wpc[p] = "advance"
    /\ IF iter_loop.i >= iter_loop.n
       THEN /\ wpc' = [wpc EXCEPT ![p] = "next"]
            /\ iter_loop' = NoIterLoop
            /\ UNCHANGED <<iter_events, stream_log, event_queue, consumer_queue>>
       ELSE LET at == iter_loop.i + iter_loop.offset + 1
                event == iter_events[at]
                r == Next_(event.iter)
                events == [iter_events EXCEPT ![at].iter = r.iter]
                popped == pop(events, iter_loop.i)
                log == [id |-> event.event.id, value |-> r.value, error |-> r.error,
                        removed |-> 0, crash |-> "", offset |-> iter_loop.offset]
            IN IF r.error \notin Exhaustion
               THEN /\ iter_events' = events
                    /\ iter_loop' = [iter_loop EXCEPT !.i = @ + 1,
                                                      !.advanced = Append(@, event.event.id)]
                    /\ stream_log' = IF event.iter.t = "cycle" THEN stream_log
                                      ELSE Append(stream_log, log)
                    /\ consumer_queue' =
                           IF event.event.has_output = "True"
                           THEN put(consumer_queue,
                                    Event__getstate__(
                                        [event.event EXCEPT
                                           !.results = IF r.error = "" THEN r.value ELSE r.iter,
                                           !.error = r.error,
                                           !.target = r.iter],
                                        NoHeap))
                           ELSE consumer_queue
                    /\ UNCHANGED <<wpc, event_queue>>
               ELSE IF popped.error # ""
               THEN /\ wpc' = [wpc EXCEPT ![p] = "exited"]
                    /\ iter_events' = events
                    /\ iter_loop' = [iter_loop EXCEPT !.error = popped.error,
                                                      !.advanced = Append(@, event.event.id)]
                    /\ stream_log' = Append(stream_log, [log EXCEPT !.crash = popped.error])
                    /\ UNCHANGED <<event_queue, consumer_queue>>
               ELSE /\ iter_events' = popped.list
                    /\ iter_loop' = [iter_loop EXCEPT !.i = @ + 1, !.offset = @ - 1,
                                                      !.advanced = Append(@, event.event.id)]
                    /\ stream_log' = Append(stream_log,
                                            [log EXCEPT !.removed = events[iter_loop.i + 1].event.id])
                    /\ event_queue' = mark_task_done(event_queue)
                    /\ UNCHANGED <<wpc, consumer_queue>>
    /\ UNCHANGED <<loopVars, originVars, cacheVars, alive_event, wcountdown, wevent, wreg,
                   wdrain, executed, consumerVars>>

\* ------------------------------------------------------------------ IterEventLoop
\* IterEventLoop.add_event without cache: IterEvent(target, *args,
\* has_output=True if has_output is None) put on event_queue.  An IterEvent
\* is an Event but for exec_.
IterEventLoop_add_event(id, target, args, has_output) ==
    Event__init__(id, target, args, IF has_output = "None" THEN "True" ELSE has_output)

\* The add_event calls on a streaming loop: MyIter streams of 0 to MaxYield
\* values and plus_one(5); endless streams without output.
IterShapes ==
    {[target |-> MyIter("it", v), args |-> <<>>, has_output |-> "None"] : v \in 0..MaxYield}
    \cup {[target |-> plus_one, args |-> <<IntV(5)>>, has_output |-> "None"]}
CycleShapes == {[target |-> Cycle("cy"), args |-> <<>>, has_output |-> "False"]}

\* The plain tasks given to a streaming loop, with and without output, next
\* to one stream: plus_one(5), raise_error() and MyIter yielding one value.
IterTaskShapes ==
    {[target |-> t, args |-> IF t = plus_one THEN <<IntV(5)>> ELSE <<>>, has_output |-> h] :
        t \in {plus_one, raise_error}, h \in {"None", "False"}}
    \cup {[target |-> MyIter("it", 1), args |-> <<>>, has_output |-> "None"]}

\* Streams whose second next() raises RuntimeError or TypeError, and one
\* without output.
IterErrShapes ==
    {[target |-> Bad("bad", exc), args |-> <<>>, has_output |-> "None"] :
        exc \in {"RuntimeError", "TypeError"}}
    \cup {[target |-> Bad("bad", "RuntimeError"), args |-> <<>>, has_output |-> "False"]}

\* Streams given to a loop that is stopped: an endless one without output and
\* one that yields a single value.
IterStopShapes ==
    CycleShapes \cup {[target |-> MyIter("it", 1), args |-> <<>>, has_output |-> "None"]}

AddIterEvents(shapes) ==
    /\ Idle
    /\ Len(submitted) < MaxStreams
    /\ \E sh \in shapes :
         LET ev == IterEventLoop_add_event(Len(submitted) + 1, sh.target, sh.args,
                                           sh.has_output)
         IN /\ event_queue' = put(event_queue, Event__getstate__(ev, objects))
            /\ submitted' = Append(submitted, [ev |-> ev, gen |-> starts, waited |-> FALSE,
                                               re_register |-> FALSE])
    /\ ocall' = "add_event"
    /\ UNCHANGED <<loopVars, needs_to_close, alive_event, consumer_queue, event_process, loops,
                   consumer_process, cache, CACHE, objects, ostack, kwargs, raised, starts,
                   closed, idem, workerVars, consumerVars>>

\* ------------------------------------------------------------------ Proxy
\* The class the test proxies: Point(x=0, y=0, z=0) with move(x, y), get_z()
\* and set_z(z); z is its attribute _z.  PointProxy declares
\* PROPERTIES = ['x', 'y'] and GETTERS = [.., 'get_z'].  (get_x and get_y
\* repeat x and y and are left out.)
Point(x, y) == [x |-> x, y |-> y, z |-> IntV(0)]

\* A Proxy.__getstate__ that never reads the object.
Proxy__getstate__unsynced(is_mp_proxy, obj) ==
    [is_other_process |-> is_mp_proxy, pickled |-> TRUE,
     PROPERTIES |-> [x |-> NoneV, y |-> NoneV], GETTERS |-> [get_z |-> NoneV]]

\* Proxy.__getstate__: on the way to the worker the properties are None, on
\* the way back they are read from the object.
Proxy__getstate__(is_mp_proxy, obj) ==
    IF is_mp_proxy
    THEN [is_other_process |-> TRUE, pickled |-> TRUE,
          PROPERTIES |-> [x |-> NoneV, y |-> NoneV], GETTERS |-> [get_z |-> NoneV]]
    ELSE [is_other_process |-> FALSE, pickled |-> TRUE,
          PROPERTIES |-> [x |-> obj.x, y |-> obj.y], GETTERS |-> [get_z |-> obj.z]]

\* A Proxy handed to consumer_queue.put and not pickled yet by the queue's
\* feeder thread.
NotPickled ==
    [is_other_process |-> FALSE, pickled |-> FALSE,
     PROPERTIES |-> [x |-> NoneV, y |-> NoneV], GETTERS |-> [get_z |-> NoneV]]

\* The object of a Proxy that keeps the default PROXY_CLASS = dict: a dict of
\* len keys.  It has no attribute x or y: getattr(obj, name, None) is None.
Dict(len) == [x |-> NoneV, y |-> NoneV, z |-> NoneV, len |-> len]

\* bool(obj): None is false, an object with __len__ is false while empty,
\* any other object is true.
bool(obj) ==
    IF obj = NoneV THEN FALSE
    ELSE IF "len" \in DOMAIN obj THEN obj.len > 0
    ELSE TRUE

\* Proxy.create_mp_object: self.PROXY_CLASS(*args, **kwargs) with the
\* Proxy's __args__, which __setstate__ leaves empty.
create_mp_object(PROXY_CLASS) ==
    IF PROXY_CLASS = "Point" THEN Point(IntV(0), IntV(0)) ELSE Dict(0)

\* Proxy.__setstate__ in the worker: proxy = cache.get(proxy_id, None);
\* if not proxy: proxy = self.create_mp_object(..), cache[proxy_id] = proxy.
Proxy__setstate__other(obj, PROXY_CLASS) ==
    IF ~bool(obj) THEN create_mp_object(PROXY_CLASS) ELSE obj

\* A Proxy.__setstate__ that copies the getter's value into the entry '_z'.
Proxy__setstate__all(state, dict) ==
    [dict EXCEPT !.x = state.PROPERTIES.x, !.y = state.PROPERTIES.y,
                 !.get_z = state.GETTERS.get_z, !.z = state.GETTERS.get_z]

\* Proxy.__setstate__ in the origin process: proxy[key] = val for the
\* properties and the getters sent.
Proxy__setstate__(state, dict) ==
    [dict EXCEPT !.x = state.PROPERTIES.x, !.y = state.PROPERTIES.y,
                 !.get_z = state.GETTERS.get_z]

\* ProxyEvent(obj, method_name, *args) and CacheObjectEvent(obj, has_output=True)
\* as put on event_queue: the Proxy goes with its state.
ProxyEvent(id, cls, method_name, args) ==
    [Event__init__(id, NoneV, args, "True") EXCEPT
        !.cls = cls, !.method_name = method_name,
        !.object = Proxy__getstate__(TRUE, NoneV)]

\* One call on the Proxy puts one event.
proxy_put(cls, method_name, args) ==
    LET ev == ProxyEvent(Len(submitted) + 1, cls, method_name, args)
    IN /\ event_queue' = put(event_queue, ev)
       /\ submitted' = Append(submitted, [ev |-> ev, gen |-> starts, waited |-> FALSE,
                                          re_register |-> FALSE])
       /\ UNCHANGED <<building, has_results, mp_object, mp_created, needs_to_close, alive_event,
                      consumer_queue,
                      event_process, loops, consumer_process, cache, CACHE, objects, kwargs,
                      raised, starts, closed, idem, workerVars, consumerVars>>

\* p = PointProxy(2, 3, loop=loop) on a running loop: Proxy.__init__ with
\* sync_mp_object (proxy_output_handler first, cache_object(self)), then
\* self.x = x and self.y = y.
CreateProxy ==
    /\ Idle /\ alive_event /\ closed = 0 /\ ~proxy.made
    /\ ocall' = "PointProxy"
    /\ ostack' = <<"self.x", "self.y", "self._z">>
    /\ proxy' = [proxy EXCEPT !.made = TRUE, !.PROXY_CLASS = "Point"]
    /\ output_handlers' = IF \E k \in 1..Len(output_handlers) :
                                output_handlers[k] = "proxy_output_handler"
                          THEN output_handlers
                          ELSE <<"proxy_output_handler">> \o output_handlers
    /\ proxy_put("CacheObjectEvent", "", <<>>)

\* Proxy.__setattr__(key, value): the dict, then the call in the process.
Proxy__setattr__(key, value) ==
    /\ proxy' = IF key = "x" THEN [proxy EXCEPT !.x = value]
                ELSE IF key = "y" THEN [proxy EXCEPT !.y = value]
                ELSE [proxy EXCEPT !.z = value]
    /\ UNCHANGED output_handlers
    /\ proxy_put("ProxyEvent", "__setattr__", <<StrV(key), value>>)

CreateProxySetX == Running("self.x") /\ ostack' = Tail(ostack) /\ Proxy__setattr__("x", IntV(2))
CreateProxySetY == Running("self.y") /\ ostack' = Tail(ostack) /\ Proxy__setattr__("y", IntV(3))
CreateProxySetZ == Running("self._z") /\ ostack' = Tail(ostack) /\ Proxy__setattr__("_z", IntV(0))

\* The calls made on the Proxy so far, after its construction.
ProxyCalls ==
    Cardinality({k \in 1..Len(submitted) : submitted[k].ev.cls = "ProxyEvent"})
    - (IF proxy.PROXY_CLASS = "Point" THEN 3 ELSE 0)

\* A method call that writes its arguments into the dict at once.
getter_call_in_process_synced(dict, args) == [dict EXCEPT !.x = args[1], !.y = args[2]]

\* Proxy.__getattr__ for a name that is neither a getter nor a property hands
\* out getter_call_in_process, which calls _call_in_process and nothing else:
\* the dict after the call.
getter_call_in_process(dict, args) == dict

\* p.move(1, 2)
ProxyMove ==
    /\ Idle /\ proxy.PROXY_CLASS = "Point" /\ closed = 0 /\ ProxyCalls < MaxProxyCalls
    /\ ocall' = "move"
    /\ proxy' = getter_call_in_process(proxy, <<IntV(1), IntV(2)>>)
    /\ UNCHANGED <<ostack, output_handlers>>
    /\ proxy_put("ProxyEvent", "move", <<IntV(1), IntV(2)>>)

\* p.x = 5
ProxySetX ==
    /\ Idle /\ proxy.PROXY_CLASS = "Point" /\ closed = 0 /\ ProxyCalls < MaxProxyCalls
    /\ ocall' = "__setattr__"
    /\ UNCHANGED ostack
    /\ Proxy__setattr__("x", IntV(5))

\* p.set_z(3)
ProxySetZ ==
    /\ Idle /\ proxy.PROXY_CLASS = "Point" /\ closed = 0 /\ ProxyCalls < MaxProxyCalls
    /\ ocall' = "set_z"
    /\ proxy' = getter_call_in_process(proxy, <<IntV(3)>>)
    /\ UNCHANGED <<ostack, output_handlers>>
    /\ proxy_put("ProxyEvent", "set_z", <<IntV(3)>>)

\* p = Proxy(loop=loop) on a running loop, for a Proxy class that keeps
\* PROXY_CLASS = dict and declares no properties.
CreateDictProxy ==
    /\ Idle /\ alive_event /\ closed = 0 /\ ~proxy.made
    /\ ocall' = "Proxy"
    /\ UNCHANGED ostack
    /\ proxy' = [proxy EXCEPT !.made = TRUE, !.PROXY_CLASS = "dict"]
    /\ output_handlers' = IF \E k \in 1..Len(output_handlers) :
                                output_handlers[k] = "proxy_output_handler"
                          THEN output_handlers
                          ELSE <<"proxy_output_handler">> \o output_handlers
    /\ proxy_put("CacheObjectEvent", "", <<>>)

\* p.setdefault('k', 1) and p.clear() on that Proxy: calls in the process.
ProxySetDefault ==
    /\ Idle /\ proxy.PROXY_CLASS = "dict" /\ closed = 0 /\ ProxyCalls < MaxProxyCalls
    /\ ocall' = "setdefault"
    /\ UNCHANGED <<ostack, proxy, output_handlers>>
    /\ proxy_put("ProxyEvent", "setdefault", <<StrV("k"), IntV(1)>>)

ProxyClear ==
    /\ Idle /\ proxy.PROXY_CLASS = "dict" /\ closed = 0 /\ ProxyCalls < MaxProxyCalls
    /\ ocall' = "clear"
    /\ UNCHANGED <<ostack, proxy, output_handlers>>
    /\ proxy_put("ProxyEvent", "clear", <<>>)

\* The worker leaves its loop; the process ends when the feeder thread of
\* consumer_queue has sent what was put.
ProxyWorkerNext(p) ==
    /\ WorkerNext(p)
    /\ wpc'[p] = "exited" =>
          \A k \in 1..qsize(consumer_queue) : consumer_queue.items[k].object.pickled

\* event_queue.get: unpickling the event runs Proxy.__setstate__.
ProxyWorkerGet(p) ==
    /\ wpc[p] = "get"
    /\ IF qsize(event_queue) > 0
       THEN /\ event_queue' = [event_queue EXCEPT !.items = Tail(@)]
            /\ wevent' = [wevent EXCEPT ![p] = Head(event_queue.items)]
            /\ mp_object' = Proxy__setstate__other(mp_object, proxy.PROXY_CLASS)
            /\ mp_created' = IF bool(mp_object) THEN mp_created ELSE mp_created + 1
            /\ wpc' = [wpc EXCEPT ![p] = "exec"]
       ELSE /\ wpc' = [wpc EXCEPT ![p] = "next"]
            /\ UNCHANGED <<event_queue, wevent, mp_object, mp_created>>
    /\ UNCHANGED <<building, has_results, output_handlers, proxy, originVars, cacheVars, alive_event,
                   consumer_queue, wcountdown, wreg, wdrain, iterVars, executed, consumerVars>>

\* The object after the method the ProxyEvent names was called on it; a
\* CacheObjectEvent calls nothing.
ProxyRun(ev, obj) ==
    IF ev.method_name = "move" THEN [obj EXCEPT !.x = ev.args[1], !.y = ev.args[2]]
    ELSE IF ev.method_name = "set_z" THEN [obj EXCEPT !.z = ev.args[1]]
    ELSE IF ev.method_name = "__setattr__"
    THEN IF ev.args[1] = StrV("x") THEN [obj EXCEPT !.x = ev.args[2]]
         ELSE IF ev.args[1] = StrV("y") THEN [obj EXCEPT !.y = ev.args[2]]
         ELSE [obj EXCEPT !.z = ev.args[2]]
    ELSE IF ev.method_name = "setdefault" THEN Dict(1)
    ELSE IF ev.method_name = "clear" THEN Dict(0)
    ELSE obj

\* process_event: event.exec_(), then consumer_queue.put(event); the event
\* is pickled later.
ProxyWorkerExec(p) ==
    /\ wpc[p] = "exec"
    /\ mp_object' = ProxyRun(wevent[p], mp_object)
    /\ consumer_queue' = IF wevent[p].has_output = "True"
                         THEN put(consumer_queue, [wevent[p] EXCEPT !.object = NotPickled])
                         ELSE consumer_queue
    /\ executed' = Append(executed,
                          [id |-> wevent[p].id, cls |-> wevent[p].cls, pid |-> p,
                           before |-> NoneV, after |-> NoneV,
                           results |-> NoneV, error |-> ""])
    /\ wpc' = [wpc EXCEPT ![p] = "done"]
    /\ UNCHANGED <<building, has_results, output_handlers, proxy, mp_created, originVars, cacheVars,
                   alive_event, event_queue, wcountdown, wevent, wreg, wdrain, iterVars,
                   consumerVars>>

\* The feeder thread of consumer_queue in the worker pickles the oldest event
\* not pickled yet: Proxy.__getstate__ reads the object as it is then.
ProxyFeeder ==
    /\ \E k \in 1..qsize(consumer_queue) :
          /\ ~consumer_queue.items[k].object.pickled
          /\ \A j \in 1..(k - 1) : consumer_queue.items[j].object.pickled
          /\ consumer_queue' =
                [consumer_queue EXCEPT !.items[k].object = Proxy__getstate__(FALSE, mp_object)]
    /\ UNCHANGED <<loopVars, originVars, cacheVars, alive_event, event_queue, workerVars,
                   consumerVars>>

\* consumer_queue.get in the origin process: unpickling the event runs
\* Proxy.__setstate__, which writes the properties into the dict.
ProxyConsumerGet(c) ==
    /\ cpc[c] = "get"
    /\ IF qsize(consumer_queue) > 0 /\ Head(consumer_queue.items).object.pickled
       THEN /\ consumer_queue' = [consumer_queue EXCEPT !.items = Tail(@)]
            /\ cevent' = [cevent EXCEPT ![c] = Head(consumer_queue.items)]
            /\ proxy' = Proxy__setstate__(Head(consumer_queue.items).object, proxy)
            /\ cpc' = [cpc EXCEPT ![c] = "process"]
       ELSE /\ cpc' = [cpc EXCEPT ![c] = "next"]
            /\ UNCHANGED <<consumer_queue, cevent, proxy>>
    /\ UNCHANGED <<building, has_results, output_handlers, mp_object, mp_created, originVars, cacheVars,
                   alive_event, event_queue, ccountdown, handled, workerVars>>

\* ------------------------------------------------------------------ specification
\* The lifecycle of one loop: any sequence of start, stop, close, wait and
\* add_event calls.
AddLifeEvent == AddEvent(LifeShapes, FALSE)

Next ==
    \/ AddLifeEvent
    \/ Start
    \/ Stop
    \/ Close
    \/ Wait
    \/ WaitStep
    \/ WaitConsumerStep
    \/ EventQueueJoin
    \/ ConsumerQueueJoin
    \/ StopStep
    \/ JoinEvent
    \/ JoinConsumer
    \/ StartLoops
    \/ \E p \in Procs : WorkerNext(p)
    \/ \E p \in Procs : WorkerGet(p)
    \/ \E p \in Procs : WorkerExec(p)
    \/ \E p \in Procs : WorkerDone(p)
    \/ \E c \in Procs : ConsumerNext(c)
    \/ \E c \in Procs : ConsumerGet(c)
    \/ \E c \in Procs : ConsumerProcess(c)
    \/ \E c \in Procs : ConsumerDone(c)

Spec == Init /\ [][Next]_vars

\* The lifecycle with cache events that carry arguments: a.increment(),
\* print("Cached", a), print with a str equal to the key of a, print with a
\* list.
ArgShapes ==
    {[target |-> MethodV(a, "increment"), args |-> <<>>],
     [target |-> print, args |-> <<StrV("Cached"), a>>],
     [target |-> print, args |-> <<get_object_key(a)>>],
     [target |-> print, args |-> <<ListV("l")>>]}

AddArgEvent ==
    /\ Idle
    /\ Len(submitted) < MaxTasks
    /\ \E sh \in ArgShapes :
         LET r == add_event(Len(submitted) + 1, sh.target, sh.args, "None", TRUE, FALSE,
                            cache, CACHE)
         IN /\ event_queue' = put(event_queue, getstate(r.event, objects))
            /\ cache' = r.cache
            /\ CACHE' = r.CACHE
            /\ submitted' = Append(submitted,
                                   [ev |-> r.event, gen |-> starts, waited |-> FALSE,
                                    re_register |-> FALSE, args |-> sh.args])
    /\ ocall' = "add_event"
    /\ UNCHANGED <<loopVars, needs_to_close, alive_event, consumer_queue, event_process, loops,
                   consumer_process, objects, ostack, kwargs, raised, starts, closed, idem,
                   workerVars, consumerVars>>

NextArgs ==
    \/ AddArgEvent
    \/ Start
    \/ Stop
    \/ Wait
    \/ WaitStep
    \/ WaitConsumerStep
    \/ EventQueueJoin
    \/ ConsumerQueueJoin
    \/ StopStep
    \/ JoinEvent
    \/ JoinConsumer
    \/ StartLoops
    \/ \E p \in Procs : WorkerNext(p)
    \/ \E p \in Procs : WorkerGet(p)
    \/ \E p \in Procs : WorkerExec(p)
    \/ \E p \in Procs : WorkerDone(p)
    \/ \E c \in Procs : ConsumerNext(c)
    \/ \E c \in Procs : ConsumerGet(c)
    \/ \E c \in Procs : ConsumerProcess(c)
    \/ \E c \in Procs : ConsumerDone(c)

\* The loop is built with a consumer.
InitArgs == Init /\ has_results

SpecArgs == InitArgs /\ [][NextArgs]_vars

\* The lifecycle with run() and the context manager as well.
NextSession ==
    \/ Next
    \/ Run
    \/ Enter
    \/ Exit

SpecSession == Init /\ [][NextSession]_vars

\* One loop started once and never stopped, fed every kind of event, with a
\* consumer and each of the handler lists.
InitTasks ==
    /\ has_results = TRUE
    /\ output_handlers \in HandlerLists
    /\ Constructed

AddTaskEvent == AddEvent(Shapes, FALSE)
StartOnce == starts = 0 /\ Start

NextTasks ==
    \/ AddTaskEvent
    \/ StartOnce
    \/ Wait
    \/ WaitConsumerStep
    \/ EventQueueJoin
    \/ ConsumerQueueJoin
    \/ StartLoops
    \/ \E p \in Procs : WorkerNext(p)
    \/ \E p \in Procs : WorkerGet(p)
    \/ \E p \in Procs : WorkerExec(p)
    \/ \E p \in Procs : WorkerDone(p)
    \/ \E c \in Procs : ConsumerNext(c)
    \/ \E c \in Procs : ConsumerGet(c)
    \/ \E c \in Procs : ConsumerProcess(c)
    \/ \E c \in Procs : ConsumerDone(c)

SpecTasks == InitTasks /\ [][NextTasks]_vars

\* One loop started once and never stopped, with or without a consumer, where
\* add_event and wait() alternate freely.
AddWaitEvent == AddEvent(LifeShapes, TRUE)

NextWait ==
    \/ AddWaitEvent
    \/ StartOnce
    \/ Wait
    \/ WaitConsumerStep
    \/ EventQueueJoin
    \/ ConsumerQueueJoin
    \/ StartLoops
    \/ \E p \in Procs : WorkerNext(p)
    \/ \E p \in Procs : WorkerGet(p)
    \/ \E p \in Procs : WorkerExec(p)
    \/ \E p \in Procs : WorkerDone(p)
    \/ \E c \in Procs : ConsumerNext(c)
    \/ \E c \in Procs : ConsumerGet(c)
    \/ \E c \in Procs : ConsumerProcess(c)
    \/ \E c \in Procs : ConsumerDone(c)

SpecWait == Init /\ [][NextWait]_vars

\* One loop started once and stopped while a second thread keeps calling
\* add_event.  The worker, the consumer and the joins of stop() are scheduled
\* again and again: queue.get has a timeout and join returns once the process
\* has ended.
PushLifeEvent == PushEvent(LifeShapes)
WorkerStep == \E p \in Procs : WorkerNext(p) \/ WorkerGet(p) \/ WorkerExec(p) \/ WorkerDone(p)
ConsumerStep ==
    \E c \in Procs : ConsumerNext(c) \/ ConsumerGet(c) \/ ConsumerProcess(c) \/ ConsumerDone(c)

NextDrain ==
    \/ PushLifeEvent
    \/ StartOnce
    \/ Stop
    \/ JoinEvent
    \/ JoinConsumer
    \/ StartLoops
    \/ \E p \in Procs : WorkerNext(p)
    \/ \E p \in Procs : WorkerGet(p)
    \/ \E p \in Procs : WorkerExec(p)
    \/ \E p \in Procs : WorkerDone(p)
    \/ \E c \in Procs : ConsumerNext(c)
    \/ \E c \in Procs : ConsumerGet(c)
    \/ \E c \in Procs : ConsumerProcess(c)
    \/ \E c \in Procs : ConsumerDone(c)

SpecDrain ==
    /\ Init /\ [][NextDrain]_vars
    /\ WF_vars(WorkerStep) /\ WF_vars(ConsumerStep)
    /\ WF_vars(JoinEvent) /\ WF_vars(JoinConsumer)

\* One Pool started once: add_event, map, wait and close.
NextPool ==
    \/ AddPoolEvent
    \/ PoolStart
    \/ PoolClose
    \/ PoolWait
    \/ PoolMap
    \/ PoolMapAddEvent
    \/ PoolWaitStep
    \/ WaitConsumerStep
    \/ EventQueueJoin
    \/ ConsumerQueueJoin
    \/ StopStep
    \/ JoinEvent
    \/ JoinConsumer
    \/ PoolStopLoops
    \/ PoolStartLoops
    \/ \E p \in Procs : WorkerNext(p)
    \/ \E p \in Procs : WorkerGet(p)
    \/ \E p \in Procs : WorkerExec(p)
    \/ \E p \in Procs : WorkerDone(p)
    \/ \E c \in Procs : ConsumerNext(c)
    \/ \E c \in Procs : ConsumerGet(c)
    \/ \E c \in Procs : ConsumerProcess(c)
    \/ \E c \in Procs : ConsumerDone(c)

SpecPool == Init /\ [][NextPool]_vars

\* handler in self.output_handlers
In(handler, handlers) == \E k \in 1..Len(handlers) : handlers[k] = handler

\* An add_output_handler without the membership test.
add_output_handler_append(handlers, handler) == Append(handlers, handler)

\* EventLoop.add_output_handler: the list afterwards.
add_output_handler(handlers, handler) ==
    IF ~In(handler, handlers) THEN Append(handlers, handler) ELSE handlers

\* list.remove(x): the first occurrence goes.
list_remove(list, x) ==
    LET k == CHOOSE i \in 1..Len(list) : list[i] = x /\ \A j \in 1..(i - 1) : list[j] # x
    IN SubSeq(list, 1, k - 1) \o SubSeq(list, k + 1, Len(list))

\* list.insert(index, x): x comes before the element at index; an index
\* beyond the end appends, a negative one counts from the end and stops at
\* the front.  The place x has afterwards, counted from 0.
list_insert_place(len, index) ==
    IF index < 0 THEN (IF len + index < 0 THEN 0 ELSE len + index)
    ELSE IF index > len THEN len ELSE index
list_insert(list, index, x) ==
    LET k == list_insert_place(Len(list), index)
    IN SubSeq(list, 1, k) \o <<x>> \o SubSeq(list, k + 1, Len(list))

\* EventLoop.insert_output_handler: the list afterwards.
insert_output_handler(handlers, index, handler) ==
    list_insert(IF In(handler, handlers) THEN list_remove(handlers, handler) ELSE handlers,
                index, handler)

\* The handlers the origin program has and the indexes it inserts at.
Handlers == {"save_record", "save_result_object", "save_results"}
InsertIndexes == (0 - 1)..Cardinality(Handlers)

\* loop.add_output_handler(h) and loop.insert_output_handler(index, h), at any
\* time.
AddOutputHandler(h) ==
    /\ Idle
    /\ ocall' = "add_output_handler"
    /\ output_handlers' = add_output_handler(output_handlers, h)
    /\ UNCHANGED <<has_results, proxyVars, building, needs_to_close, event_process,
                   consumer_process, loops, ostack, kwargs, raised, starts, closed, idem,
                   cacheVars, alive_event, event_queue, consumer_queue, workerVars,
                   consumerVars>>

InsertOutputHandler(index, h) ==
    /\ Idle
    /\ ocall' = "insert_output_handler"
    /\ output_handlers' = insert_output_handler(output_handlers, index, h)
    /\ UNCHANGED <<has_results, proxyVars, building, needs_to_close, event_process,
                   consumer_process, loops, ostack, kwargs, raised, starts, closed, idem,
                   cacheVars, alive_event, event_queue, consumer_queue, workerVars,
                   consumerVars>>

\* One loop built with a duplicate-free handler list, started once and given
\* plus_one(5), whose handlers are added and inserted at any time.
NextHandlerList ==
    \/ \E h \in Handlers : AddOutputHandler(h)
    \/ \E index \in InsertIndexes, h \in Handlers : InsertOutputHandler(index, h)
    \/ AddLifeEvent
    \/ StartOnce
    \/ StartLoops
    \/ \E p \in Procs : WorkerNext(p)
    \/ \E p \in Procs : WorkerGet(p)
    \/ \E p \in Procs : WorkerExec(p)
    \/ \E p \in Procs : WorkerDone(p)
    \/ \E c \in Procs : ConsumerNext(c)
    \/ \E c \in Procs : ConsumerGet(c)
    \/ \E c \in Procs : ConsumerProcess(c)
    \/ \E c \in Procs : ConsumerDone(c)

SpecHandlerList == InitTasks /\ [][NextHandlerList]_vars

\* A loop whose first handler raises for the result 6, given plus_one(5) and
\* a.increment() as plain events.
InitHandlers ==
    /\ has_results = TRUE
    /\ output_handlers = <<"raise_on_six", "save_record">>
    /\ Constructed

HandlerShapes ==
    {[target |-> plus_one, args |-> <<IntV(5)>>, has_output |-> "None",
      cache |-> FALSE, re_register |-> FALSE],
     [target |-> MethodV(a, "increment"), args |-> <<>>, has_output |-> "None",
      cache |-> FALSE, re_register |-> FALSE]}
AddHandlerEvent == closed = 0 /\ AddEvent(HandlerShapes, FALSE)

NextHandlers ==
    \/ AddHandlerEvent
    \/ Start
    \/ Stop
    \/ Wait
    \/ WaitStep
    \/ WaitConsumerStep
    \/ EventQueueJoin
    \/ ConsumerQueueJoin
    \/ StopStep
    \/ JoinEvent
    \/ JoinConsumer
    \/ StartLoops
    \/ \E p \in Procs : WorkerNext(p)
    \/ \E p \in Procs : WorkerGet(p)
    \/ \E p \in Procs : WorkerExec(p)
    \/ \E p \in Procs : WorkerDone(p)
    \/ \E c \in Procs : ConsumerNext(c)
    \/ \E c \in Procs : ConsumerGet(c)
    \/ \E c \in Procs : ConsumerProcess(c)
    \/ \E c \in Procs : ConsumerDone(c)
    \/ \E c \in Procs : ConsumerRaise(c)

SpecHandlers == InitHandlers /\ [][NextHandlers]_vars

\* add_cache_event(a.increment) called on origin thread t, in the steps
\* another thread can come between.  First the test of
\* _cache_object_with_register: is_object_registered(obj, object_id, cache).
ThreadCheck(t) ==
    /\ ~raised /\ closed = 0
    /\ building[t].pc = "idle"
    /\ Len(submitted) + Cardinality({u \in Threads : building[u].pc # "idle"}) < MaxTasks
    /\ building' = [building EXCEPT ![t] =
                    [pc |-> "checked",
                     registered |-> is_object_registered(a, get_object_key(a), cache),
                     overlap |-> \E u \in Threads : building[u].pc # "idle",
                     ev |-> NoEvent]]
    /\ UNCHANGED <<has_results, output_handlers, proxyVars, originVars, cacheVars, alive_event,
                   event_queue, consumer_queue, workerVars, consumerVars>>

\* Then the rest of CacheEvent.__init__: register_object and the pair when the
\* test found the receiver unregistered.
ThreadBuild(t) ==
    /\ building[t].pc = "checked"
    /\ LET r == CacheEvent__init__(0, "CacheEvent", MethodV(a, "increment"), <<>>, "True",
                                   ~building[t].registered, cache, CACHE)
       IN /\ building' = [building EXCEPT ![t].pc = "constructed", ![t].ev = r.event]
          /\ cache' = r.cache
          /\ CACHE' = r.CACHE
    /\ UNCHANGED <<has_results, output_handlers, proxyVars, originVars, objects, submitted,
                   alive_event, event_queue, consumer_queue, workerVars, consumerVars>>

\* Then self.event_queue.put(event).
ThreadPut(t) ==
    /\ building[t].pc = "constructed"
    /\ LET ev == [building[t].ev EXCEPT !.id = Len(submitted) + 1]
       IN /\ event_queue' = put(event_queue, getstate(ev, objects))
          /\ submitted' = Append(submitted, [ev |-> ev, gen |-> starts, waited |-> FALSE,
                                             re_register |-> FALSE,
                                             overlap |-> building[t].overlap])
    /\ building' = [building EXCEPT ![t] = NotBuilding]
    /\ UNCHANGED <<has_results, output_handlers, proxyVars, originVars, cache, CACHE, objects,
                   alive_event, consumer_queue, workerVars, consumerVars>>

\* One loop started once, and two threads that submit cache events on the
\* same object.
NextThreads ==
    \/ \E t \in Threads : ThreadCheck(t)
    \/ \E t \in Threads : ThreadBuild(t)
    \/ \E t \in Threads : ThreadPut(t)
    \/ StartOnce
    \/ StartLoops
    \/ Wait
    \/ WaitConsumerStep
    \/ EventQueueJoin
    \/ ConsumerQueueJoin
    \/ \E p \in Procs : WorkerNext(p)
    \/ \E p \in Procs : WorkerGet(p)
    \/ \E p \in Procs : WorkerExec(p)
    \/ \E p \in Procs : WorkerDone(p)
    \/ \E c \in Procs : ConsumerNext(c)
    \/ \E c \in Procs : ConsumerGet(c)
    \/ \E c \in Procs : ConsumerProcess(c)
    \/ \E c \in Procs : ConsumerDone(c)

SpecThreads == InitArgs /\ [][NextThreads]_vars

\* A Pool given a.increment() as cache events, with and without re_register.
PoolCacheShapes ==
    {[target |-> MethodV(a, "increment"), args |-> <<>>, has_output |-> "None",
      cache |-> TRUE, re_register |-> rr] : rr \in BOOLEAN}
AddPoolCacheEvent == closed = 0 /\ AddEvent(PoolCacheShapes, FALSE)

NextPoolCache ==
    \/ AddPoolCacheEvent
    \/ PoolStart
    \/ PoolClose
    \/ PoolWait
    \/ PoolWaitStep
    \/ WaitConsumerStep
    \/ EventQueueJoin
    \/ ConsumerQueueJoin
    \/ StopStep
    \/ JoinEvent
    \/ JoinConsumer
    \/ PoolStopLoops
    \/ PoolStartLoops
    \/ \E p \in Procs : WorkerNext(p)
    \/ \E p \in Procs : WorkerGet(p)
    \/ \E p \in Procs : WorkerExec(p)
    \/ \E p \in Procs : WorkerDone(p)
    \/ \E c \in Procs : ConsumerNext(c)
    \/ \E c \in Procs : ConsumerGet(c)
    \/ \E c \in Procs : ConsumerProcess(c)
    \/ \E c \in Procs : ConsumerDone(c)

SpecPoolCache == Init /\ [][NextPoolCache]_vars

\* add_event on a streaming loop that has not been closed.
AddIterEvent == closed = 0 /\ AddIterEvents(IterShapes)
AddCycleEvent == AddIterEvents(CycleShapes)
IterWorkerStep ==
    \E p \in Procs :
        IterWorkerNext(p) \/ IterWorkerGet(p) \/ IterWorkerBlocked(p) \/ IterWorkerExec(p)
        \/ IterWorkerAdvance(p)

\* One IterEventLoop started once: add_event, wait and close.
NextIter ==
    \/ AddIterEvent
    \/ StartOnce
    \/ Wait
    \/ Close
    \/ WaitStep
    \/ WaitConsumerStep
    \/ EventQueueJoin
    \/ ConsumerQueueJoin
    \/ StopStep
    \/ JoinEvent
    \/ JoinConsumer
    \/ StartLoops
    \/ \E p \in Procs : IterWorkerNext(p)
    \/ \E p \in Procs : IterWorkerGet(p)
    \/ \E p \in Procs : IterWorkerBlocked(p)
    \/ \E p \in Procs : IterWorkerExec(p)
    \/ \E p \in Procs : IterWorkerAdvance(p)
    \/ \E c \in Procs : ConsumerNext(c)
    \/ \E c \in Procs : ConsumerGet(c)
    \/ \E c \in Procs : ConsumerProcess(c)
    \/ \E c \in Procs : ConsumerDone(c)

\* One IterEventLoop started once and given plain tasks and streams; wait()
\* is called at any time.
AddIterTaskEvent == AddIterEvents(IterTaskShapes)

NextIterTasks ==
    \/ AddIterTaskEvent
    \/ StartOnce
    \/ Wait
    \/ WaitConsumerStep
    \/ EventQueueJoin
    \/ ConsumerQueueJoin
    \/ StartLoops
    \/ \E p \in Procs : IterWorkerNext(p)
    \/ \E p \in Procs : IterWorkerGet(p)
    \/ \E p \in Procs : IterWorkerBlocked(p)
    \/ \E p \in Procs : IterWorkerExec(p)
    \/ \E p \in Procs : IterWorkerAdvance(p)
    \/ \E c \in Procs : ConsumerNext(c)
    \/ \E c \in Procs : ConsumerGet(c)
    \/ \E c \in Procs : ConsumerProcess(c)
    \/ \E c \in Procs : ConsumerDone(c)

\* A streaming loop is built with a consumer.
InitIter == Init /\ has_results

SpecIter == InitIter /\ [][NextIter]_vars

SpecIterTasks == InitIter /\ [][NextIterTasks]_vars

\* One IterEventLoop started once and given endless streams; its process
\* keeps running.
NextCycle ==
    \/ AddCycleEvent
    \/ StartOnce
    \/ StartLoops
    \/ \E p \in Procs : IterWorkerNext(p)
    \/ \E p \in Procs : IterWorkerGet(p)
    \/ \E p \in Procs : IterWorkerBlocked(p)
    \/ \E p \in Procs : IterWorkerExec(p)
    \/ \E p \in Procs : IterWorkerAdvance(p)

SpecCycle == InitIter /\ [][NextCycle]_vars /\ WF_vars(IterWorkerStep)

\* One loop of a managed session with one PointProxy: calls on the proxy,
\* mp_wait and the end of the session.
NextProxy ==
    \/ StartOnce
    \/ CreateProxy
    \/ CreateProxySetX
    \/ CreateProxySetY
    \/ CreateProxySetZ
    \/ ProxyMove
    \/ ProxySetX
    \/ Wait
    \/ Close
    \/ WaitStep
    \/ WaitConsumerStep
    \/ EventQueueJoin
    \/ ConsumerQueueJoin
    \/ StopStep
    \/ JoinEvent
    \/ JoinConsumer
    \/ StartLoops
    \/ ProxyFeeder
    \/ \E p \in Procs : ProxyWorkerNext(p)
    \/ \E p \in Procs : ProxyWorkerGet(p)
    \/ \E p \in Procs : ProxyWorkerExec(p)
    \/ \E p \in Procs : WorkerDone(p)
    \/ \E c \in Procs : ConsumerNext(c)
    \/ \E c \in Procs : ProxyConsumerGet(c)
    \/ \E c \in Procs : ConsumerProcess(c)
    \/ \E c \in Procs : ConsumerDone(c)

\* EventLoop() of the tests: with a consumer.
SpecProxy == InitIter /\ [][NextProxy]_vars

\* One loop with a consumer, started once and fed through every submission
\* path.
NextSubmit ==
    \/ SubmitEvent
    \/ StartOnce
    \/ StartLoops
    \/ \E p \in Procs : WorkerNext(p)
    \/ \E p \in Procs : WorkerGet(p)
    \/ \E p \in Procs : WorkerExec(p)
    \/ \E p \in Procs : WorkerDone(p)
    \/ \E c \in Procs : ConsumerNext(c)
    \/ \E c \in Procs : ConsumerGet(c)
    \/ \E c \in Procs : ConsumerProcess(c)
    \/ \E c \in Procs : ConsumerDone(c)

SpecSubmit == InitIter /\ [][NextSubmit]_vars

\* One IterEventLoop started once and given streams that raise; wait() is
\* called at any time.
AddIterErrEvent == AddIterEvents(IterErrShapes)

NextIterErr ==
    \/ AddIterErrEvent
    \/ StartOnce
    \/ Wait
    \/ WaitConsumerStep
    \/ EventQueueJoin
    \/ ConsumerQueueJoin
    \/ StartLoops
    \/ \E p \in Procs : IterWorkerNext(p)
    \/ \E p \in Procs : IterWorkerGet(p)
    \/ \E p \in Procs : IterWorkerBlocked(p)
    \/ \E p \in Procs : IterWorkerExec(p)
    \/ \E p \in Procs : IterWorkerAdvance(p)
    \/ \E c \in Procs : ConsumerNext(c)
    \/ \E c \in Procs : ConsumerGet(c)
    \/ \E c \in Procs : ConsumerProcess(c)
    \/ \E c \in Procs : ConsumerDone(c)

SpecIterErr == InitIter /\ [][NextIterErr]_vars

\* One IterEventLoop started once, given streams and stopped.  The worker,
\* the consumer and the joins of stop() are scheduled again and again.
AddIterStopEvent == AddIterEvents(IterStopShapes)

NextIterStop ==
    \/ AddIterStopEvent
    \/ StartOnce
    \/ StartLoops
    \/ Stop
    \/ JoinEvent
    \/ JoinConsumer
    \/ \E p \in Procs : IterWorkerNext(p)
    \/ \E p \in Procs : IterWorkerGet(p)
    \/ \E p \in Procs : IterWorkerBlocked(p)
    \/ \E p \in Procs : IterWorkerExec(p)
    \/ \E p \in Procs : IterWorkerAdvance(p)
    \/ \E c \in Procs : ConsumerNext(c)
    \/ \E c \in Procs : ConsumerGet(c)
    \/ \E c \in Procs : ConsumerProcess(c)
    \/ \E c \in Procs : ConsumerDone(c)

SpecIterStop ==
    /\ InitIter /\ [][NextIterStop]_vars
    /\ WF_vars(IterWorkerStep) /\ WF_vars(ConsumerStep)
    /\ WF_vars(JoinEvent) /\ WF_vars(JoinConsumer)

\* The same session with one Proxy of either class: a PointProxy or a Proxy
\* on the default PROXY_CLASS.
\* The session of test_proxy_getter_property_conflict, with move(1, 2) beside
\* set_z(3).
NextProxyGetter ==
    \/ StartOnce
    \/ CreateProxy
    \/ CreateProxySetX
    \/ CreateProxySetY
    \/ CreateProxySetZ
    \/ ProxyMove
    \/ ProxySetZ
    \/ Wait
    \/ Close
    \/ WaitStep
    \/ WaitConsumerStep
    \/ EventQueueJoin
    \/ ConsumerQueueJoin
    \/ StopStep
    \/ JoinEvent
    \/ JoinConsumer
    \/ StartLoops
    \/ ProxyFeeder
    \/ \E p \in Procs : ProxyWorkerNext(p)
    \/ \E p \in Procs : ProxyWorkerGet(p)
    \/ \E p \in Procs : ProxyWorkerExec(p)
    \/ \E p \in Procs : WorkerDone(p)
    \/ \E c \in Procs : ConsumerNext(c)
    \/ \E c \in Procs : ProxyConsumerGet(c)
    \/ \E c \in Procs : ConsumerProcess(c)
    \/ \E c \in Procs : ConsumerDone(c)

SpecProxyGetter == InitIter /\ [][NextProxyGetter]_vars

NextProxyClass ==
    \/ NextProxy
    \/ CreateDictProxy
    \/ ProxySetDefault
    \/ ProxyClear

SpecProxyClass == InitIter /\ [][NextProxyClass]_vars

\* ------------------------------------------------------------------ properties
\* start() has returned and neither stop() nor close() was called since.
Started == event_process # NoProc
\* The origin thread's last call was wait() and it has returned.
WaitReturned == ocall = "wait" /\ ostack = <<>> /\ ~raised
\* Task k has been run by a worker / its result has been given to process_output.
Executed(k) == \E j \in 1..Len(executed) : executed[j].id = k
Handled(k) == \E j \in 1..Len(handled) : handled[j].id = k
\* The process (thread) is inside its loop and no shutdown countdown runs.
Looping(proc, pcs, countdown) ==
    proc # NoProc /\ pcs[proc] \notin {"unborn", "exited"} /\ countdown[proc] = -1

\* C1: on a started loop with a consumer, when wait() has returned every task
\* submitted so far with has_output true has had its result passed to the
\* output handlers: plus_one(5) has left 6 with the handler.
C1_WaitDeliversResults ==
    (WaitReturned /\ Started /\ has_results) =>
        \A k \in 1..Len(submitted) :
            submitted[k].ev.has_output = "True" =>
                \E j \in 1..Len(handled) :
                    /\ handled[j].id = k
                    /\ handled[j].results = IntV(6)
                    /\ handled[j].called = output_handlers

C1_Witness ==
    /\ WaitReturned /\ Started /\ has_results
    /\ \E k \in 1..Len(submitted) :
          submitted[k].ev.has_output = "True" /\ submitted[k].gen = starts /\ Handled(k)

\* C6: stop() or close() called twice in a row, or on a loop never started,
\* never raises; a start() after it gives a running loop again, and once a
\* wait() on that loop has returned every task submitted after the restart
\* has been executed and, with a consumer, its result given to the same
\* handlers.
C6_StopTwiceThenRestart ==
    /\ ~raised
    /\ (Idle /\ Started /\ idem >= 0 /\ starts > idem) =>
          /\ alive_event
          /\ Looping(event_process, wpc, wcountdown)
          /\ has_results => Looping(consumer_process, cpc, ccountdown)
    /\ (WaitReturned /\ Started /\ idem >= 0 /\ starts > idem) =>
          \A k \in 1..Len(submitted) :
              submitted[k].gen > idem =>
                  /\ Executed(k)
                  /\ (has_results /\ submitted[k].ev.has_output = "True") =>
                        \E j \in 1..Len(handled) :
                            handled[j].id = k /\ handled[j].handlers = output_handlers

C6_Witness ==
    /\ WaitReturned /\ Started /\ has_results
    /\ idem >= 1 /\ starts > idem
    /\ \E k \in 1..Len(submitted) :
          submitted[k].gen > idem /\ submitted[k].ev.has_output = "True" /\ Handled(k)

\* The steps of close()'s body, in order: the two halves of wait(), then
\* stop() and the joins of stop_event_loop.
CloseBody == <<"wait", "wait_consumer", "stop", "join_event", "join_consumer">>
IsSuffix(t, u) == Len(t) <= Len(u) /\ t = SubSeq(u, Len(u) - Len(t) + 1, Len(u))
\* What is left of a call once the queue join in progress, if any, returns.
AfterJoin(stack) ==
    IF Head(stack) \in {"event_queue.join", "consumer_queue.join"} THEN Tail(stack)
    ELSE stack

\* C7: close() is wait() followed by stop(); that body runs at most once per
\* start(), and a close() while the flag is down changes nothing.
C7_CloseOncePerStart ==
    /\ [](/\ closed <= 1
          /\ (ocall = "close" /\ ostack # <<>>) => IsSuffix(AfterJoin(ostack), CloseBody))
    /\ [][(Close /\ ~needs_to_close) =>
             UNCHANGED <<loopVars, needs_to_close, alive_event, event_queue, consumer_queue,
                         event_process, loops, consumer_process, ostack, kwargs, raised, starts,
                         closed, cacheVars, workerVars, consumerVars>>]_vars

C7_Witness ==
    /\ ocall = "close" /\ ostack = <<>> /\ closed = 1 /\ idem = starts /\ starts >= 1
    /\ ~needs_to_close /\ ~alive_event /\ event_process = NoProc
    /\ Len(executed) >= 1

\* C8: wait() does not request shutdown: when it has returned on a started loop
\* alive_event is set and the worker and the consumer are in their loops, and
\* every task submitted right after an earlier wait() has been executed and,
\* with a consumer, delivered.
C8_WaitKeepsLoopRunning ==
    (WaitReturned /\ Started) =>
        /\ alive_event
        /\ Looping(event_process, wpc, wcountdown)
        /\ has_results => Looping(consumer_process, cpc, ccountdown)
        /\ \A k \in 1..Len(submitted) :
              submitted[k].waited =>
                  /\ Executed(k)
                  /\ (has_results /\ submitted[k].ev.has_output = "True") => Handled(k)

C8_Witness ==
    /\ WaitReturned /\ Started /\ has_results
    /\ \E k \in 1..Len(submitted) :
          /\ submitted[k].waited /\ submitted[k].gen = starts
          /\ submitted[k].ev.has_output = "True" /\ Handled(k)

\* C2: with one worker and one consumer, results reach process_output in the
\* order in which their tasks were submitted, and the worker runs the tasks in
\* that order, for plain and cache events alike.
C2_FifoDelivery ==
    /\ \A i, j \in 1..Len(handled) : i < j => handled[i].id < handled[j].id
    /\ \A i, j \in 1..Len(executed) : i < j => executed[i].id < executed[j].id

C2_Witness ==
    /\ Len(handled) >= 2
    /\ \E i, j \in 1..Len(handled) : handled[i].cls = "Event" /\ handled[j].cls = "CacheEvent"

\* The cache events run by worker p before execution k.
CacheRunsBefore(k) ==
    {j \in 1..(k - 1) : /\ executed[j].cls = "CacheEvent"
                        /\ executed[j].pid = executed[k].pid
                        /\ executed[j].after.s = submitted[executed[k].id].ev.object.s}

\* C3: a cache event without re_register whose receiver an earlier cache event
\* has left in the worker's registry runs on that stored instance, in the
\* state the latest of those earlier events left it in.
C3_CachedReceiverPersists ==
    \A k \in 1..Len(executed) :
        (/\ executed[k].cls = "CacheEvent"
         /\ ~submitted[executed[k].id].re_register
         /\ CacheRunsBefore(k) # {}) =>
            LET j == CHOOSE x \in CacheRunsBefore(k) : \A y \in CacheRunsBefore(k) : y <= x
            IN /\ executed[k].before = executed[j].after
               /\ executed[k].results = IntV(executed[j].after.n + 1)

C3_Witness ==
    \E k \in 1..Len(executed) :
        /\ executed[k].cls = "CacheEvent"
        /\ ~submitted[executed[k].id].re_register
        /\ CacheRunsBefore(k) # {}
        /\ executed[k].results = IntV(2)

\* The executions of plain events on a bound method.
PlainMethodRuns ==
    {k \in 1..Len(executed) : executed[k].cls = "Event" /\ executed[k].before.t = "method"}

\* C4: a plain event on a bound method runs on a copy of the receiver made for
\* that event from the receiver's state in the origin process, so it sees no
\* mutation of an earlier event; the receiver in the origin process keeps its
\* state.
C4_PlainTasksRunOnCopies ==
    /\ \A k \in PlainMethodRuns :
          /\ SelfOf(executed[k].before) = ObjV("a", 0, executed[k].id)
          /\ executed[k].results = IntV(1)
    /\ objects["a"] = 0

C4_Witness ==
    \E j, k \in PlainMethodRuns : j < k /\ executed[j].after.n = 1 /\ executed[k].before.n = 0

\* The cache events submitted, and whether an earlier one had the receiver of
\* event k.
CacheTasks == {k \in 1..Len(submitted) : submitted[k].ev.cls = "CacheEvent"}
RegisteredBefore(k) ==
    \E j \in CacheTasks : j < k /\ submitted[j].ev.object_id = submitted[k].ev.object_id

\* C5: a cache event carries the (key, object) pair of its receiver exactly
\* when re_register is set or no earlier cache event registered the receiver;
\* so cache events without re_register carry one entry between them, and each
\* one with re_register carries its own.
C5_RegistrationList ==
    /\ \A k \in CacheTasks :
          LET ev == submitted[k].ev
          IN /\ (ev.register # <<>>) <=> (submitted[k].re_register \/ ~RegisteredBefore(k))
             /\ ev.register # <<>> =>
                   ev.register = <<[name |-> StrV("id_a"), obj |-> a]>>
    /\ Cardinality({k \in CacheTasks : ~submitted[k].re_register
                                        /\ submitted[k].ev.register # <<>>}) <= 1
    /\ (CacheTasks # {} /\ \A k \in CacheTasks : ~submitted[k].re_register) =>
          Cardinality({k \in CacheTasks : submitted[k].ev.register # <<>>}) = 1

C5_Witness ==
    \E j, k \in CacheTasks :
        /\ j < k
        /\ ~submitted[j].re_register /\ ~submitted[k].re_register
        /\ Len(submitted[j].ev.register) = 1 /\ submitted[k].ev.register = <<>>

\* C9: for a result without error the handlers called are the handlers of the
\* list, in order, up to and including the first that returns true: none
\* before it returned true, and the chain stops short only on a true return.
C9_HandlerChain ==
    \A j \in 1..Len(handled) :
        handled[j].error = "" =>
            LET c == handled[j].called
                h == handled[j].handlers
            IN /\ h = output_handlers
               /\ Len(c) <= Len(h) /\ c = SubSeq(h, 1, Len(c))
               /\ \A i \in 1..(Len(c) - 1) : ~HandlerReturns(h[i], handled[j])
               /\ Len(c) < Len(h) => Len(c) >= 1 /\ HandlerReturns(h[Len(c)], handled[j])

C9_Witness ==
    \E j \in 1..Len(handled) :
        handled[j].error = "" /\ Len(handled[j].called) = 2 /\ Len(handled[j].handlers) = 3

\* C10: a result with an error is given to no handler and is printed; the
\* consumer stays in its loop, and when wait() has returned the results of the
\* tasks submitted after the failing one have been handled too.
C10_ErrorBypassesHandlers ==
    /\ \A j \in 1..Len(handled) :
          handled[j].error # "" =>
              /\ handled[j].called = <<>> /\ handled[j].printed
              /\ Started => Looping(consumer_process, cpc, ccountdown)
    /\ (WaitReturned /\ Started) =>
          \A e, k \in 1..Len(submitted) :
              (e < k /\ submitted[e].ev.target = raise_error
                     /\ submitted[k].ev.has_output = "True") => Handled(e) /\ Handled(k)

C10_Witness ==
    \E i, j \in 1..Len(handled) :
        i < j /\ handled[i].error = "RuntimeError" /\ handled[j].error = ""

\* C11: a target that raises leaves the exception in the error field of its
\* event and no result; the worker stays in its loop, and when wait() has
\* returned every task submitted after the failing one has been executed and,
\* if it has output, its result handled.
C11_TaskErrorIsLocal ==
    /\ \A j \in 1..Len(executed) :
          submitted[executed[j].id].ev.target = raise_error =>
              executed[j].error = "RuntimeError" /\ executed[j].results = NoneV
    /\ Started => wpc[event_process] \notin {"unborn", "exited"}
    /\ (WaitReturned /\ Started) =>
          \A e, k \in 1..Len(submitted) :
              (e < k /\ submitted[e].ev.target = raise_error) =>
                  /\ Executed(e) /\ Executed(k)
                  /\ submitted[k].ev.has_output = "True" => Handled(k)

C11_Witness ==
    \E i, j \in 1..Len(executed) :
        /\ i < j
        /\ executed[i].error = "RuntimeError"
        /\ executed[j].error = "" /\ executed[j].results # NoneV
        /\ executed[i].pid = executed[j].pid

\* C12: once a worker has seen the loss of liveness it takes no more events
\* from the queue than the qsize it saw at that moment, whatever is put on the
\* queue meanwhile.
C12_DrainWithinSnapshot ==
    \A p \in Procs : wdrain[p].snap # -1 => wdrain[p].got <= wdrain[p].snap

\* What the loop does: up to one event more than the qsize it saw.
C12_DrainWithinSnapshotPlusOne ==
    \A p \in Procs : wdrain[p].snap # -1 => wdrain[p].got <= wdrain[p].snap + 1

HasOutputTasks == {k \in 1..Len(submitted) : submitted[k].ev.has_output = "True"}
\* No task id occurs twice in a history.
NoDuplicates(log) == \A i, j \in 1..Len(log) : log[i].id = log[j].id => i = j
\* The origin thread's last call on the Pool was a close() that ran and returned.
PoolClosed == ocall = "close" /\ ostack = <<>> /\ closed = 1

\* C14: in a Pool whose workers share one task queue and one result queue no
\* task is executed twice and no result is handled twice, only results of
\* has_output tasks are handled, and when close() has returned every submitted
\* task has been executed and the handler chain has been invoked exactly once
\* for each of the K has_output tasks.
C14_PoolExactlyOnce ==
    /\ NoDuplicates(executed)
    /\ NoDuplicates(handled)
    /\ \A j \in 1..Len(handled) : handled[j].id \in HasOutputTasks
    /\ PoolClosed =>
          /\ \A k \in 1..Len(submitted) : Executed(k)
          /\ has_results => /\ \A k \in HasOutputTasks : Handled(k)
                            /\ Len(handled) = Cardinality(HasOutputTasks)

C14_Witness ==
    /\ PoolClosed /\ has_results
    /\ Cardinality(HasOutputTasks) = MaxTasks
    /\ Len(handled) = MaxTasks
    /\ \E i, j \in 1..Len(executed) : executed[i].pid # executed[j].pid

\* The origin thread's last call on the Pool was map() and it has returned.
MapReturned == ocall = "map" /\ ostack = <<>>
\* The number of elements the map call was given: all the add_event calls the
\* run had left.
MapElements == MaxTasks - (Len(submitted) - Cardinality(MapTasks))

\* C15: map on a started Pool never submits an element twice, and when it has
\* returned there is exactly one task for each element of its argument and
\* the handler chain has been invoked, once, with the result of every one of
\* these tasks.
C15_MapSubmitsAndWaits ==
    /\ \A k, l \in MapTasks : submitted[k].ev.args = submitted[l].ev.args => k = l
    /\ MapReturned =>
          /\ Len(submitted) = MaxTasks
          /\ \A i \in 0..(MapElements - 1) :
                Cardinality({k \in MapTasks : submitted[k].ev.args = <<IntV(MapBase + i)>>}) = 1
          /\ has_results =>
                \A k \in MapTasks :
                    /\ submitted[k].ev.has_output = "True"
                    /\ Cardinality({j \in 1..Len(handled) : handled[j].id = k}) = 1
                    /\ \A j \in 1..Len(handled) :
                          handled[j].id = k =>
                              /\ handled[j].results = IntV(submitted[k].ev.args[1].n + 1)
                              /\ handled[j].called # <<>>

C15_Witness ==
    /\ MapReturned /\ has_results
    /\ Cardinality(MapTasks) = MaxTasks
    /\ \A k \in MapTasks : Handled(k)
    /\ \E i, j \in 1..Len(executed) : executed[i].pid # executed[j].pid

\* The first k entries of a sequence.
Prefix(seq, k) == SubSeq(seq, 1, k)
\* The streams the for loop over iter_events has advanced so far are the
\* first of those pending at its start, each once, in registration order.
InRegistrationOrder ==
    /\ Len(iter_loop.advanced) <= Len(iter_loop.pending)
    /\ iter_loop.advanced = Prefix(iter_loop.pending, Len(iter_loop.advanced))

\* C16: in every pass of the streaming loop each pending stream is advanced
\* exactly once, in registration order: none twice and none skipped.
C16_AdvanceOncePerPass == InRegistrationOrder

\* C16, as far as it holds: the order is kept in every pass as long as at
\* most one stream of the pass has been found exhausted.
C16_AdvanceOncePerPassOneExhaustion == iter_loop.offset >= -1 => InRegistrationOrder

C16_Witness ==
    /\ Len(iter_loop.pending) = MaxStreams
    /\ iter_loop.advanced = iter_loop.pending
    /\ iter_loop.offset = -1

\* C16, endless streams: every pending endless stream is advanced again and
\* again, however many of them are pending.
C16_EndlessStreamsKeepAdvancing ==
    \A k \in 1..MaxStreams : \A b \in {0, 1} :
        (Len(iter_events) >= k /\ iter_events[k].iter.n = b)
            ~> (Len(iter_events) >= k /\ iter_events[k].iter.n = 1 - b)

\* The entries of stream_log for a next() that found its stream exhausted.
Exhaustions == {j \in 1..Len(stream_log) : stream_log[j].error # ""}

\* C17: whenever advancing a stream hits exhaustion that stream and no other
\* is removed from iter_events, no stream is removed twice and the process
\* goes on, however many streams are exhausted in the same pass.
C17_ExhaustedStreamRemoved ==
    /\ \A j \in Exhaustions : stream_log[j].removed = stream_log[j].id
    /\ \A j, k \in Exhaustions : stream_log[j].id = stream_log[k].id => j = k
    /\ \A j \in Exhaustions : stream_log[j].crash = ""
    /\ iter_loop.error = ""

\* C17, as far as it holds: the first exhaustion of a pass removes the
\* exhausted stream and no other, and the process goes on.
C17_FirstExhaustedStreamRemoved ==
    \A j \in Exhaustions :
        stream_log[j].offset = 0 =>
            stream_log[j].removed = stream_log[j].id /\ stream_log[j].crash = ""

C17_Witness ==
    /\ Len(iter_events) >= 1
    /\ \E j \in Exhaustions : stream_log[j].removed = stream_log[j].id
    /\ \E p \in Procs : wpc[p] = "advance"

\* The submitted tasks that are streams with output.
Streams ==
    {k \in 1..Len(submitted) :
        is_iterable(submitted[k].ev.target) /\ submitted[k].ev.has_output = "True"}
\* The values stream k has yielded, in the order of production.
Yielded(k) ==
    LET Of(e) == e.id = k /\ e.error = ""
        sel == SelectSeq(stream_log, Of)
    IN [j \in 1..Len(sel) |-> sel[j].value]
\* The results of task k in a sequence of events, in order.
ResultsOf(k, events) ==
    LET Of(e) == e.id = k
        sel == SelectSeq(events, Of)
    IN [j \in 1..Len(sel) |-> sel[j].results]
\* The events a consumer thread holds and has not given to process_output yet.
InConsumer ==
    IF consumer_process # NoProc /\ cpc[consumer_process] = "process"
    THEN <<cevent[consumer_process]>> ELSE <<>>
\* The results of task k: those handled, then the one being handled, then
\* those waiting on consumer_queue.
Emitted(k) ==
    ResultsOf(k, handled) \o ResultsOf(k, InConsumer) \o ResultsOf(k, consumer_queue.items)

AllValues(k) ==
    [j \in 1..submitted[k].ev.target.n |-> IntV(submitted[k].ev.target.n - j + 1)]
\* Every value of every submitted stream with output has been handled.
StreamsHandled == \A k \in Streams : ResultsOf(k, handled) = AllValues(k)
\* wait() on the started loop, or a close() that found it started, has returned.
WaitOrCloseReturned ==
    \/ WaitReturned /\ Started
    \/ ocall = "close" /\ ostack = <<>> /\ closed = 1

\* C19: every pending stream keeps its slot of event_queue unfinished, and
\* when wait() or close() has returned on a streaming loop every value of
\* every submitted finite stream has been emitted and handled.
C19_WaitCoversStreams ==
    /\ event_queue.unfinished >= Len(iter_events)
    /\ WaitOrCloseReturned => StreamsHandled

\* C19, as far as it holds: the same as long as the process has not ended
\* with the IndexError of iter_events.pop.
C19_WaitCoversStreamsNoIndexError ==
    /\ event_queue.unfinished >= Len(iter_events)
    /\ (WaitOrCloseReturned /\ iter_loop.error = "") => StreamsHandled

C19_Witness ==
    /\ WaitOrCloseReturned /\ StreamsHandled
    /\ Cardinality(Streams) = MaxStreams
    /\ \E k \in Streams : Len(AllValues(k)) = MaxYield

\* C20: when wait() (mp_wait) has returned on the running loop, or the
\* session has ended with close(), the dict of the Proxy holds for every
\* declared property the value the object in the worker has.
C20_ProxyMirrorsObject ==
    (WaitOrCloseReturned /\ proxy.made) =>
        /\ mp_object # NoneV
        /\ proxy.x = mp_object.x
        /\ proxy.y = mp_object.y

C20_Witness ==
    /\ ocall = "close" /\ ostack = <<>> /\ closed = 1
    /\ proxy.made /\ proxy.x = IntV(1) /\ proxy.y = IntV(2)
    /\ mp_object = Point(IntV(1), IntV(2))
    /\ ProxyCalls = MaxProxyCalls

ProxyDecoded ==
    Len(executed) + Cardinality({p \in Procs : wpc[p] = "exec"})

\* C22: for one Proxy and one worker the backing object is created exactly
\* once, when the first task that carries the Proxy is decoded; no later
\* task creates another.
C22_ObjectCreatedOnce ==
    /\ mp_created <= 1
    /\ ProxyDecoded > 0 => mp_created = 1

\* C22 for a backing object that is true in a boolean context (a Point):
\* created at the first decoding and never again.
C22_TruthyObjectCreatedOnce ==
    proxy.PROXY_CLASS = "Point" => C22_ObjectCreatedOnce

\* The worker has run the construction and two calls of a PointProxy on the
\* one object created.
C22_Witness ==
    /\ proxy.PROXY_CLASS = "Point" /\ mp_created = 1
    /\ Len(executed) = 3 + MaxProxyCalls
    /\ mp_object # Point(IntV(0), IntV(0))

\* The tasks on the task channel and in a worker's hands.
Enqueued == {event_queue.items[k] : k \in 1..qsize(event_queue)}
InHand == {wevent[p] : p \in {q \in Procs : wpc[q] = "exec"}}

\* C23: no task is on the task channel or executed with has_output None,
\* whatever the submission path and whether the target is a callable or an
\* event built by the caller.
C23_HasOutputResolved ==
    \A ev \in Enqueued \cup InHand : ev.has_output \in {"True", "False"}

\* C23 for the paths that build the task: add_event and add_cache_event with
\* a callable (True when has_output is not given), add_cache_event with a
\* plain Event and cache_object; an event handed in as it is keeps the
\* has_output it was built with when that is a bool.
C23_HasOutputResolvedWhenBuilt ==
    \A ev \in Enqueued \cup InHand :
        LET sh == submitted[ev.id]
        IN /\ (sh.path \notin {"add_event(Event)", "add_cache_event(CacheEvent)"}
                  \/ sh.built # "None") => ev.has_output \in {"True", "False"}
           /\ (sh.path \in {"add_event", "add_cache_event"} /\ sh.has_output = "None")
                  => ev.has_output = "True"
           /\ (sh.path = "add_cache_event(Event)" /\ sh.has_output = "None"
                  /\ sh.built = "None") => ev.has_output = "True"

\* A worker is about to execute a task built by add_cache_event from an
\* Event whose has_output was None, and a callable given to add_event with
\* no has_output is on the channel: both carry True.
C23_Witness ==
    /\ \E ev \in InHand :
          /\ submitted[ev.id].path = "add_cache_event(Event)"
          /\ submitted[ev.id].built = "None" /\ submitted[ev.id].has_output = "None"
          /\ ev.has_output = "True"
    /\ \E ev \in Enqueued :
          /\ submitted[ev.id].path = "add_event" /\ submitted[ev.id].has_output = "None"
          /\ ev.has_output = "True"

\* The items a worker has received from the task channel and not marked
\* complete yet: between get() and the finally clause.
Received == Cardinality({p \in Procs : wpc[p] \in {"exec", "done"}})

PlainRun == {j \in 1..Len(executed) : ~is_iterable(executed[j].results)}
PlainRunNoOutput == {j \in PlainRun : submitted[executed[j].id].ev.has_output = "False"}
\* The slots of the task channel not marked complete that are accounted
\* for: tasks still queued, the task in a worker's hands, the pending streams.
OpenSlots ==
    qsize(event_queue) + Cardinality({p \in Procs : wpc[p] = "exec"}) + Len(iter_events)

\* C25: in the streaming loop every non-stream task taken from the task
\* channel is marked complete exactly once whatever its has_output and
\* outcome: no slot stays open for a task that has run, and wait() returns
\* once all tasks have run.
C25_PlainTasksMarkedDone ==
    event_queue.unfinished = OpenSlots

\* C25 for the tasks with has_output true: each is marked complete once,
\* also when it raised; the only slots left open are those of the tasks
\* run without output.
C25_OutputTasksMarkedDone ==
    event_queue.unfinished = OpenSlots + Cardinality(PlainRunNoOutput)

\* plus_one(5) and raise_error(), both with output, have run and wait() has
\* returned: every slot is marked complete.
C25_Witness ==
    /\ WaitReturned /\ Started
    /\ Cardinality(PlainRun) = 2 /\ PlainRunNoOutput = {}
    /\ \E j \in PlainRun : executed[j].error # ""
    /\ Len(submitted) = 2 /\ event_queue.unfinished = 0

\* No endless stream has been given to the loop.
NoEndlessStream == \A k \in 1..Len(submitted) : submitted[k].ev.target.t # "cycle"

\* C26: once stop() has cleared alive_event the streaming loop leaves its
\* for loop after a bounded number of iterations, also while streams are
\* pending, endless ones included: stop() returns.
C26_StopReturns == (ocall = "stop") ~> (ostack = <<>>)

\* C26 for finite streams: stop() returns once the pending streams are
\* exhausted.
C26_StopReturnsWithoutEndlessStreams ==
    (ocall = "stop" /\ NoEndlessStream) ~> (ostack = <<>>)

\* stop() has cleared alive_event and waits for the worker, which has a
\* finite stream pending.
C26_Witness ==
    /\ ocall = "stop" /\ ostack # <<>> /\ ~alive_event /\ NoEndlessStream
    /\ Len(iter_events) > 0
    /\ event_process # NoProc /\ wpc[event_process] # "exited"

\* The worker processes and the consumer threads that are alive.
AliveWorkers == {p \in Procs : wpc[p] \notin {"unborn", "exited"}}
AliveConsumers == {c \in Procs : cpc[c] \notin {"unborn", "exited"}}

\* C27: whatever the sequence of start(), run(), stop(), close(), __enter__
\* and __exit__ calls, at most one worker process and one consumer thread of
\* the loop are alive, and when start() spawns new ones the previous worker
\* and consumer have ended.
C27_AtMostOneWorkerAndConsumer ==
    /\ Cardinality(AliveWorkers) <= 1
    /\ Cardinality(AliveConsumers) <= 1
    /\ (ostack # <<>> /\ Head(ostack) = "start_loops") =>
          (AliveWorkers = {} /\ AliveConsumers = {})

\* start() was called on a running loop: it is about to spawn the second
\* worker and consumer, and the first ones, which ran a task, have ended.
C27_Witness ==
    /\ ocall = "start" /\ ostack = <<"start_loops">> /\ starts = 1 /\ idem = -1
    /\ has_results /\ wpc[1] = "exited" /\ cpc[1] = "exited"
    /\ Len(handled) >= 1

\* The classes of the items the origin puts on the task channel and the worker
\* on the result channel; an item of another kind would be a signal.
EventClasses == {"Event", "CacheEvent", "CacheObjectEvent", "ProxyEvent"}
IsSentinel(item) == item.cls \notin EventClasses
NoSentinelOn(que) == \A i \in 1..Len(que.items) : ~IsSentinel(que.items[i])

\* Worker p leaves its dispatch loop in this step.
LeavesLoop(p) == wpc[p] \notin {"unborn", "exited"} /\ wpc'[p] = "exited"

C29_NoBlockingReceiveWhileStreaming ==
    [][\A p \in Procs :
         /\ wpc'[p] = "blocked" => Len(iter_events') = 0
         /\ (wpc[p] = "get" /\ wpc'[p] = "blocked") =>
               (qsize(event_queue) = 0 /\ Len(iter_events) = 0)
         /\ (wpc[p] = "get" /\ wpc'[p] # "get" /\ Len(iter_events) > 0) =>
               \/ /\ qsize(event_queue) > 0 /\ wpc'[p] = "exec"
                  /\ event_queue'.items = Tail(event_queue.items)
               \/ /\ qsize(event_queue) = 0 /\ wpc'[p] = "advance"
                  /\ event_queue' = event_queue]_vars

\* The only task submitted is a stream that was advanced once and is still
\* pending, no task waits, and the worker has started its next pass over
\* the streams: it came there without a receive.
C29_Witness ==
    /\ Len(submitted) = 1 /\ Len(iter_events) = 1 /\ Len(stream_log) = 1
    /\ qsize(event_queue) = 0
    /\ wpc[1] = "advance" /\ iter_loop.i = 0 /\ iter_loop.n = 1

\* The step advances a stream with output and next() raises an exception
\* that is not in the set ends: the new entry of stream_log.
StreamRaises(ends) ==
    /\ Len(stream_log') = Len(stream_log) + 1
    /\ stream_log'[Len(stream_log')].error \notin ends \cup {""}
    /\ submitted[stream_log'[Len(stream_log')].id].ev.has_output = "True"

\* The step puts a result with the error and the key of the stream advanced
\* on consumer_queue and leaves the stream in iter_events.
ErrorEmitted ==
    LET e == stream_log'[Len(stream_log')]
    IN /\ Len(consumer_queue'.items) = Len(consumer_queue.items) + 1
       /\ consumer_queue'.items[Len(consumer_queue'.items)].id = e.id
       /\ consumer_queue'.items[Len(consumer_queue'.items)].error = e.error
       /\ \E k \in 1..Len(iter_events') : iter_events'[k].event.id = e.id

\* C30: when next() on a pending stream raises anything but StopIteration, a
\* result with that error and the stream's key is put on the result channel
\* and the stream stays pending.
C30_StreamErrorEmitted == [][StreamRaises({"StopIteration"}) => ErrorEmitted]_vars

\* C30 for the exceptions the loop does not take for the end of the stream
\* (anything but StopIteration and TypeError).
C30_StreamErrorEmittedUnlessTypeError ==
    [][StreamRaises({"StopIteration", "TypeError"}) => ErrorEmitted]_vars

\* A stream with output raised RuntimeError on its second next(): the consumer
\* has handled its first value and the result with the error, and the stream
\* is still pending.
C30_Witness ==
    /\ Len(submitted) = 1 /\ submitted[1].ev.has_output = "True"
    /\ Len(stream_log) = 2 /\ stream_log[2].error = "RuntimeError"
    /\ Len(handled) = 2 /\ handled[2].error = "RuntimeError"
    /\ Len(iter_events) = 1 /\ iter_events[1].event.id = 1

\* Worker p takes a cache event off the task channel in this step: the
\* pickled state it decodes and the dict self.cache names afterwards.
DecodesCacheEvent(p) ==
    /\ wpc[p] = "get" /\ wpc'[p] # "get"
    /\ qsize(event_queue) > 0 /\ Head(event_queue.items).cls # "Event"
Decoded == Head(event_queue.items)

\* The arguments of the decoded event that are keys with no entry in the
\* worker's dict reach the event as they are.
RawKeysPassed(p) ==
    \A k \in DOMAIN Decoded.args :
       (Decoded.args[k].t = "str"
          /\ Decoded.args[k] \notin DOMAIN SelfCache(wreg'[p], Decoded.cache_id))
       => wevent'[p].args[k] = Decoded.args[k]

\* C31: decoding a cache event in the worker never raises, whatever its
\* arguments: the worker goes on to execute it, and a key without an entry is
\* passed as the raw key.
C31_DecodeNeverRaises ==
    [][\A p \in Procs : DecodesCacheEvent(p) => (wpc'[p] = "exec" /\ RawKeysPassed(p))]_vars

\* C31 for events whose arguments are all hashable.
C31_DecodeOfHashableArgsNeverRaises ==
    [][\A p \in Procs :
         (DecodesCacheEvent(p) /\ \A k \in DOMAIN Decoded.args : Hashable(Decoded.args[k]))
         => (wpc'[p] = "exec" /\ RawKeysPassed(p))]_vars

\* print("Cached", a) was submitted when a was registered in the origin, its
\* second argument went as the key, and a worker that holds no entry for the
\* key has executed it with the key as the argument.
C31_Witness ==
    \E j \in 1..Len(executed) :
       /\ submitted[executed[j].id].args = <<StrV("Cached"), a>>
       /\ submitted[executed[j].id].ev.args[2] = get_object_key(a)
       /\ executed[j].args[2] = get_object_key(a)
       /\ executed[j].error = ""

\* Execution j had object a among its arguments, and the origin sent it as
\* the key a is registered under: the positions of such arguments.
KeyedArgs(j) ==
    {k \in DOMAIN executed[j].args :
        /\ executed[j].cls = "CacheEvent"
        /\ submitted[executed[j].id].args[k] = a
        /\ submitted[executed[j].id].ev.args[k] = get_object_key(a)}

\* The executions before j of a cache event on a method of a: on any worker,
\* and on the worker of execution j.
CacheRunsOnA(j) ==
    {x \in 1..(j - 1) : executed[x].cls = "CacheEvent" /\ executed[x].after.t = "method"
                                                      /\ executed[x].after.s = "a"}
OwnCacheRunsOnA(j) == {x \in CacheRunsOnA(j) : executed[x].pid = executed[j].pid}
Latest(S) == CHOOSE x \in S : \A y \in S : y <= x

\* C32: an argument that is a registered object goes as its key and reaches
\* the target as the instance the earlier cache events on that object
\* operated on, in the state the latest of them left it in.
C32_RegisteredArgRoundTrip ==
    \A j \in 1..Len(executed) : \A k \in KeyedArgs(j) :
        CacheRunsOnA(j) # {} =>
            executed[j].args[k] = SelfOf(executed[Latest(CacheRunsOnA(j))].after)

\* C32 for the cache events the worker of execution j has run itself.
C32_RegisteredArgRoundTripOnOneWorker ==
    \A j \in 1..Len(executed) : \A k \in KeyedArgs(j) :
        OwnCacheRunsOnA(j) # {} =>
            executed[j].args[k] = SelfOf(executed[Latest(OwnCacheRunsOnA(j))].after)

\* a.increment() ran as a cache event, then print("Cached", a) went with the
\* key of a and the same worker ran it with the incremented instance.
C32_Witness ==
    \E j \in 1..Len(executed) :
       /\ 2 \in KeyedArgs(j)
       /\ OwnCacheRunsOnA(j) # {}
       /\ executed[j].args[2].t = "obj" /\ executed[j].args[2].n = 1

\* The positions of the primitive arguments execution j was submitted with,
\* but for the values in the set keys.
PrimitiveArgs(j, keys) ==
    {k \in DOMAIN executed[j].args :
        /\ executed[j].cls = "CacheEvent"
        /\ submitted[executed[j].id].args[k].t \in DO_NOT_REGISTER_TYPE
        /\ submitted[executed[j].id].args[k] \notin keys}

\* C35: a primitive argument of a cache event reaches the target as the value
\* it was submitted with, also when the value equals a key of the worker's
\* registry.
C35_PrimitiveArgUnchanged ==
    \A j \in 1..Len(executed) : \A k \in PrimitiveArgs(j, {}) :
        executed[j].args[k] = submitted[executed[j].id].args[k]

\* C35 for the primitive values that are not the key an object is registered
\* under.
C35_NonKeyPrimitiveArgUnchanged ==
    \A j \in 1..Len(executed) : \A k \in PrimitiveArgs(j, {get_object_key(a)}) :
        executed[j].args[k] = submitted[executed[j].id].args[k]

\* A worker that holds a under its key has run print("Cached", a): the first
\* argument reached print as the string, the second as the instance.
C35_Witness ==
    \E j \in 1..Len(executed) :
       /\ 1 \in PrimitiveArgs(j, {get_object_key(a)})
       /\ executed[j].args[1] = StrV("Cached")
       /\ executed[j].args[2].t = "obj"

\* C33: a result that synchronizes the Proxy writes the entries of the
\* declared properties and getters only: the entry '_z', written locally by
\* the constructor, keeps its value 0 in every step, whatever the worker does
\* to the object.
C33_UndeclaredAttributeKeepsLocalValue ==
    [][proxy.z = IntV(0) => proxy'.z = IntV(0)]_vars

\* set_z(3) ran in the worker and the session has ended: p._z is still 0
\* while the entry of the getter get_z is 3.
C33_Witness ==
    /\ ocall = "close" /\ ostack = <<>> /\ closed = 1
    /\ mp_object # NoneV /\ mp_object.z = IntV(3)
    /\ proxy.z = IntV(0) /\ proxy.get_z = IntV(3)

\* The local writes p.x = v made so far (the events they put), the latest of
\* them, and the calls of move after it.
XWrites ==
    {k \in 1..Len(submitted) : /\ submitted[k].ev.method_name = "__setattr__"
                               /\ submitted[k].ev.args[1] = StrV("x")}
LastXWrite == CHOOSE k \in XWrites : \A j \in XWrites : j <= k
MovesAfter(w) == {k \in (w + 1)..Len(submitted) : submitted[k].ev.method_name = "move"}

\* Consumer c takes a result off consumer_queue in this step, which
\* synchronizes the Proxy: the event the result is of.
SyncStep(c) == cpc[c] = "get" /\ cpc'[c] = "process"
Synced == Head(consumer_queue.items).id

\* C34: after a local write p.x = v the mirror reads v until the result of
\* the setattr event of that write, or of a later event, is consumed: the
\* result of an earlier event leaves the entry as the write set it.
C34_NoStaleResultOverwritesLocalWrite ==
    [][\A c \in Procs :
         (SyncStep(c) /\ XWrites # {} /\ Synced < LastXWrite) => proxy'.x = proxy.x]_vars

\* C34 for the results of the setattr event and of later events: they carry
\* the value written or the value a later move(1, 2) gave the object, never
\* an older one; and no step but a write and a synchronization changes the
\* entry.
C34_ResultOfWriteOrLaterIsNotOlder ==
    [][/\ \A c \in Procs :
            (SyncStep(c) /\ XWrites # {} /\ Synced >= LastXWrite) =>
               \/ proxy'.x = submitted[LastXWrite].ev.args[2]
               \/ MovesAfter(LastXWrite) # {} /\ proxy'.x = IntV(1)
       /\ proxy'.x # proxy.x =>
            \/ \E c \in Procs : SyncStep(c)
            \/ Len(submitted') = Len(submitted) + 1 /\ LastXWrite' = Len(submitted')]_vars

\* p.x = 5 was the last call, the result of its setattr event has been
\* handled, and the mirror reads 5.
C34_Witness ==
    /\ XWrites # {} /\ LastXWrite = Len(submitted)
    /\ submitted[LastXWrite].ev.args[2] = IntV(5)
    /\ \E j \in 1..Len(handled) : handled[j].id = LastXWrite
    /\ proxy.x = IntV(5)

\* Execution k is of a cache event without re_register that went without the
\* registration pair, an earlier event having registered its receiver.
SentWithoutPair(k) ==
    /\ executed[k].cls = "CacheEvent"
    /\ ~submitted[executed[k].id].re_register
    /\ submitted[executed[k].id].ev.register = <<>>

\* Execution k ran the method on a receiver found in the worker's registry.
ReceiverResolved(k) ==
    /\ executed[k].before.t = "method"
    /\ executed[k].error = ""

\* C36: in a Pool a cache event sent without the registration pair finds its
\* receiver on whichever worker takes it.
C36_PoolResolvesOnAnyWorker ==
    \A k \in 1..Len(executed) : SentWithoutPair(k) => ReceiverResolved(k)

\* C36 for the worker that has run an earlier cache event on the receiver,
\* and so was sent the pair or holds the receiver already.
C36_PoolResolvesOnRegisteringWorker ==
    \A k \in 1..Len(executed) :
        (SentWithoutPair(k) /\ CacheRunsBefore(k) # {}
           /\ \E j \in CacheRunsBefore(k) : ReceiverResolved(j)) => ReceiverResolved(k)

\* Two cache events in a Pool were taken by the same worker: the second went
\* without the pair and returned 2.
C36_Witness ==
    /\ Len(loops) = PoolSize
    /\ \E k \in 1..Len(executed) :
          /\ SentWithoutPair(k) /\ CacheRunsBefore(k) # {}
          /\ ReceiverResolved(k) /\ executed[k].results = IntV(2)

\* The events put so far that carry the registration pair of their receiver.
WithPair == {k \in 1..Len(submitted) : submitted[k].ev.register # <<>>}

\* Every event of S put without the pair comes after one put with it, and
\* every execution of an event of S found its receiver.
PairComesFirst(S) ==
    /\ \A k \in S : k \notin WithPair => \E j \in WithPair : j < k
    /\ \A k \in 1..Len(executed) : executed[k].id \in S => ReceiverResolved(k)

\* C37: when two origin threads call add_cache_event on the same receiver at
\* the same time, the event with the registration pair is put before any
\* event without it, and no cache event is executed without its receiver.
C37_PairEnqueuedFirst == PairComesFirst(1..Len(submitted))

\* C37 for the calls that began while no other thread was inside
\* add_cache_event.
C37_PairEnqueuedFirstWithoutOverlap ==
    PairComesFirst({k \in 1..Len(submitted) : ~submitted[k].overlap})

\* Both threads have submitted, one call after the other: the second event
\* went without the pair and ran on the receiver the first installed.
C37_Witness ==
    /\ Len(submitted) = 2
    /\ ~submitted[1].overlap /\ ~submitted[2].overlap
    /\ WithPair = {1}
    /\ \E k \in 1..Len(executed) :
          executed[k].id = 2 /\ ReceiverResolved(k) /\ executed[k].results = IntV(2)

\* Consumer c has a result in hand in this step and is done with it in the
\* next: whether a handler raised for it, and whether the consumer then is
\* still in its loop.
HandlesResult(c) == cpc[c] \in {"process", "raise"}
HandlerRaised(c) == process_output_raises(cevent[c], output_handlers) # ""
StaysInLoop(c) == cpc'[c] \in {"raise", "done"} \/ cpc'[c] = cpc[c]

\* C38: handling a result never ends the consumer loop, an exception raised
\* by an output handler included.
C38_HandlerExceptionKeepsLoop ==
    [][\A c \in Procs : HandlesResult(c) => StaysInLoop(c)]_vars

\* C38 for the results no handler raises for.
C38_LoopKeptWhenNoHandlerRaises ==
    [][\A c \in Procs : (HandlesResult(c) /\ ~HandlerRaised(c)) => StaysInLoop(c)]_vars

\* Two results were handled by the same consumer, raise_on_six was called for
\* both and raised for neither.
C38_Witness ==
    /\ Len(handled) = 2 /\ starts = 1
    /\ \A j \in 1..2 : /\ handled[j].called = <<"raise_on_six", "save_record">>
                         /\ handled[j].results = IntV(1)
    /\ cpc[1] \in {"next", "get"}

\* stop() has returned on a loop with a consumer that was started.
StopReturned == ocall = "stop" /\ ostack = <<>> /\ has_results /\ starts >= 1
\* The executions whose result the worker pushed on consumer_queue.
Pushed == {k \in 1..Len(executed) : submitted[executed[k].id].ev.has_output = "True"}
OnResultQueue(id) == \E j \in 1..qsize(consumer_queue) : consumer_queue.items[j].id = id

\* C39: when stop() has returned, every result a worker pushed, the ones of
\* its final drain included, has been handled by the consumer.
C39_DrainResultsHandledBeforeStopReturns ==
    StopReturned => \A k \in Pushed : Handled(executed[k].id)

\* What stop() gives: every result pushed has been handled or is still on
\* consumer_queue, and the handled ones were pushed before the others.
C39_DrainResultsHandledOrLeftOnQueue ==
    StopReturned =>
        /\ \A k \in Pushed : Handled(executed[k].id) \/ OnResultQueue(executed[k].id)
        /\ \A j, k \in Pushed : (j < k /\ Handled(executed[k].id)) => Handled(executed[j].id)

\* stop() was called with a task still queued and has not returned: the
\* worker has taken the task in its final drain and pushed the result, and
\* the consumer has handled it.
C39_Witness ==
    /\ ocall = "stop" /\ ostack # <<>> /\ has_results
    /\ \E p \in Procs : wdrain[p].snap >= 1 /\ wdrain[p].got = 1 /\ wevent[p] = NoEvent
    /\ Len(executed) = 1 /\ Pushed = {1} /\ Handled(executed[1].id)

\* No handler occurs twice in the list.
DuplicateFree(handlers) ==
    \A i, j \in 1..Len(handlers) : handlers[i] = handlers[j] => i = j
\* The list without handler h, in its order.
Without(handlers, h) == SelectSeq(handlers, LAMBDA x : x # h)

\* C40: the handler list stays duplicate-free under add_output_handler and
\* insert_output_handler; adding a handler that is present leaves the list as
\* it is, adding a new one puts it last; inserting puts the handler at the
\* index list.insert gives it, once, with the other handlers in their order.
C40_HandlerListDuplicateFree ==
    /\ [](DuplicateFree(output_handlers))
    /\ [][\A h \in Handlers :
            AddOutputHandler(h) =>
               output_handlers' = IF In(h, output_handlers) THEN output_handlers
                                  ELSE output_handlers \o <<h>>]_vars
    /\ [][\A index \in InsertIndexes, h \in Handlers :
            InsertOutputHandler(index, h) =>
               /\ Without(output_handlers', h) = Without(output_handlers, h)
               /\ Len(output_handlers') = Len(Without(output_handlers, h)) + 1
               /\ output_handlers'[list_insert_place(Len(Without(output_handlers, h)),
                                                      index) + 1] = h]_vars

\* save_results, the last of three handlers, was inserted again at index 0
\* and is now the first of three.
C40_Witness ==
    /\ ocall = "insert_output_handler"
    /\ output_handlers = <<"save_results", "save_record", "save_result_object">>

====
